---- MODULE Spec2Model ----
(***************************************************************************)
(* A model of the mp4-parser box decoder: the byte cursor (reader.rs), the *)
(* box header and payload parsers (boxes.rs, quicktime.rs) and the drivers *)
(* that walk the box tree (bin/parse.rs, bin/info.rs, parser.rs).          *)
(*                                                                         *)
(* Bytes are integers 0..255 and the input buffer is a sequence of bytes.  *)
(* 32- and 64-bit unsigned quantities are kept at their full width as four *)
(* 16-bit limbs, least significant first, so that sizes beyond 2^32 and    *)
(* the `as u32` casts of the drivers behave as they do in the program.     *)
(***************************************************************************)
EXTENDS Integers, Sequences, FiniteSets, TLC

VARIABLES
    buf,              \* the input byte sequence (never changes after Init)
    pos,              \* Reader.cursor position
    status,           \* "running", "done" (returned normally) or "panic"
    err,              \* what the panic reports: [kind, site, box_type, offset, size]
    stack,            \* the driver's call stack, innermost call last
    trace,            \* the box headers decoded by the driver loops, in order
    driver,           \* which program runs: "parse", "info" or "legacy"
    overflow_checks,  \* the build: TRUE panics on integer overflow, FALSE wraps
    tracks,           \* info.rs: Parser.tracks
    current_track,    \* info.rs: Parser.current_track, <<>> for None
    indent,           \* Logger.indent
    last              \* the last Reader operation and what it returned

vars == <<buf, pos, status, err, stack, trace, driver, overflow_checks,
          tracks, current_track, indent, last>>

\* What the Reader's own operations leave alone.
walk == <<stack, trace, tracks, current_track, indent>>

(***************************************************************************)
(* Unsigned 64-bit arithmetic on limbs                                      *)
(***************************************************************************)
Base == 256 * 256

\* The u64 with value n, for 0 <= n < 2^31.
Big(n) == <<n % Base, n \div Base, 0, 0>>

\* A value a driver can hold as a buffer offset of the model (below 2^31).
IsSmall(a) == a[3] = 0 /\ a[4] = 0 /\ a[2] < 128 * 256

IntOf(a) == a[2] * Base + a[1]

BigLt(a, b) ==
    \/ a[4] < b[4]
    \/ a[4] = b[4] /\ a[3] < b[3]
    \/ a[4] = b[4] /\ a[3] = b[3] /\ a[2] < b[2]
    \/ a[4] = b[4] /\ a[3] = b[3] /\ a[2] = b[2] /\ a[1] < b[1]

BigLe(a, b) == a = b \/ BigLt(a, b)

\* a + b modulo 2^64, and whether it overflowed.
BigAdd(a, b) ==
    LET s1 == a[1] + b[1]
        s2 == a[2] + b[2] + s1 \div Base
        s3 == a[3] + b[3] + s2 \div Base
        s4 == a[4] + b[4] + s3 \div Base
    IN  [val |-> <<s1 % Base, s2 % Base, s3 % Base, s4 % Base>>,
         overflow |-> s4 >= Base]

\* a - b modulo 2^64, and whether it underflowed.
BigSub(a, b) ==
    LET d1 == a[1] - b[1]
        c1 == IF d1 < 0 THEN 1 ELSE 0
        d2 == a[2] - b[2] - c1
        c2 == IF d2 < 0 THEN 1 ELSE 0
        d3 == a[3] - b[3] - c2
        c3 == IF d3 < 0 THEN 1 ELSE 0
        d4 == a[4] - b[4] - c3
    IN  [val |-> <<(d1 + Base) % Base, (d2 + Base) % Base,
                   (d3 + Base) % Base, (d4 + Base) % Base>>,
         overflow |-> d4 < 0]

\* `x as u32`: the low 32 bits.
AsU32(a) == <<a[1], a[2], 0, 0>>

\* The same bytes read least significant first (from_le_bytes).
from_le_bytes(bs) ==
    IF Len(bs) = 1 THEN <<bs[1], 0, 0, 0>>
    ELSE IF Len(bs) = 2 THEN <<bs[2] * 256 + bs[1], 0, 0, 0>>
    ELSE IF Len(bs) = 4 THEN <<bs[2] * 256 + bs[1], bs[4] * 256 + bs[3], 0, 0>>
    ELSE <<bs[2] * 256 + bs[1], bs[4] * 256 + bs[3],
           bs[6] * 256 + bs[5], bs[8] * 256 + bs[7]>>

\* u32::from_be_bytes / u64::from_be_bytes, widened to u64.
from_be_bytes(bs) ==
    IF Len(bs) = 1 THEN <<bs[1], 0, 0, 0>>
    ELSE IF Len(bs) = 2 THEN <<bs[1] * 256 + bs[2], 0, 0, 0>>
    ELSE IF Len(bs) = 4 THEN <<bs[3] * 256 + bs[4], bs[1] * 256 + bs[2], 0, 0>>
    ELSE <<bs[7] * 256 + bs[8], bs[5] * 256 + bs[6],
           bs[3] * 256 + bs[4], bs[1] * 256 + bs[2]>>

\* i16::from_be_bytes / i32::from_be_bytes: two's complement.
from_be_bytes_signed(bs) ==
    LET top == IF bs[1] >= 128 THEN bs[1] - 256 ELSE bs[1]
    IN  IF Len(bs) = 2 THEN top * 256 + bs[2]
        ELSE ((top * 256 + bs[2]) * 256 + bs[3]) * 256 + bs[4]

(***************************************************************************)
(* UTF-8, as String::from_utf8 accepts it                                   *)
(***************************************************************************)
IsCont(b) == b \in 128..191

RECURSIVE Utf8Valid(_)
Utf8Valid(s) ==
    IF s = <<>> THEN TRUE
    ELSE LET b == s[1]
             n == Len(s)
         IN  IF b < 128 THEN Utf8Valid(Tail(s))
             ELSE IF b \in 194..223
                  THEN n >= 2 /\ IsCont(s[2]) /\ Utf8Valid(SubSeq(s, 3, n))
             ELSE IF b \in 224..239
                  THEN /\ n >= 3
                       /\ s[2] \in (IF b = 224 THEN 160..191
                                    ELSE IF b = 237 THEN 128..159 ELSE 128..191)
                       /\ IsCont(s[3])
                       /\ Utf8Valid(SubSeq(s, 4, n))
             ELSE IF b \in 240..244
                  THEN /\ n >= 4
                       /\ s[2] \in (IF b = 240 THEN 144..191
                                    ELSE IF b = 244 THEN 128..143 ELSE 128..191)
                       /\ IsCont(s[3])
                       /\ IsCont(s[4])
                       /\ Utf8Valid(SubSeq(s, 5, n))
             ELSE FALSE

\* The Unicode scalar values of a valid UTF-8 byte sequence.
RECURSIVE Utf8Decode(_)
Utf8Decode(s) ==
    IF s = <<>> THEN <<>>
    ELSE LET b == s[1]
             n == Len(s)
         IN  IF b < 128 THEN <<b>> \o Utf8Decode(Tail(s))
             ELSE IF b < 224
                  THEN <<(b - 192) * 64 + (s[2] - 128)>> \o Utf8Decode(SubSeq(s, 3, n))
             ELSE IF b < 240
                  THEN <<(b - 224) * 4096 + (s[2] - 128) * 64 + (s[3] - 128)>>
                       \o Utf8Decode(SubSeq(s, 4, n))
             ELSE <<(b - 240) * 262144 + (s[2] - 128) * 4096
                    + (s[3] - 128) * 64 + (s[4] - 128)>>
                  \o Utf8Decode(SubSeq(s, 5, n))

(***************************************************************************)
(* Reader (reader.rs).  Every operation yields                              *)
(*   [ok, kind, val, pos]                                                   *)
(* ok = FALSE is a panic of the operation (`unwrap` of an Err) of the given *)
(* kind; val is a sequence of integers: the limbs of an unsigned integer,   *)
(* <<v>> for a signed one, the bytes of a block, the scalar values of a     *)
(* string.                                                                  *)
(***************************************************************************)
position(p) == p

\* Cursor::read_exact followed by unwrap: all w bytes, or a panic.
cursor_read_exact(b, p, w) ==
    IF p + w <= Len(b)
    THEN [ok |-> TRUE, kind |-> "none", val |-> SubSeq(b, p + 1, p + w), pos |-> p + w]
    ELSE [ok |-> FALSE, kind |-> "eof", val |-> <<>>, pos |-> p]

read_unsigned(b, p, w) ==
    LET value(r) == IF r.ok THEN [r EXCEPT !.val = from_be_bytes(r.val)] ELSE r
    IN  value(cursor_read_exact(b, p, w))

read_signed(b, p, w) ==
    LET value(r) == IF r.ok THEN [r EXCEPT !.val = <<from_be_bytes_signed(r.val)>>] ELSE r
    IN  value(cursor_read_exact(b, p, w))

read_u8(b, p) == read_unsigned(b, p, 1)

read_u16(b, p) == read_unsigned(b, p, 2)

read_i16(b, p) == read_signed(b, p, 2)

read_u32(b, p) == read_unsigned(b, p, 4)

read_i32(b, p) == read_signed(b, p, 4)

read_u64(b, p) == read_unsigned(b, p, 8)

\* The value is the raw integer; the float is val / 2^16.
read_fixed_point_16_16(b, p) == read_unsigned(b, p, 4)

\* The value is the raw integer; the float is val / 2^8.
read_fixed_point_8_8(b, p) == read_unsigned(b, p, 2)

read_string(b, p, len) ==
    LET from_utf8(r) ==
            IF ~r.ok THEN r
            ELSE IF Utf8Valid(r.val) THEN [r EXCEPT !.val = Utf8Decode(r.val)]
            ELSE [ok |-> FALSE, kind |-> "utf8", val |-> <<>>, pos |-> r.pos]
    IN  from_utf8(cursor_read_exact(b, p, len))

\* Cursor::read: as many bytes as are left, at most max_len; never fails.
\* The value is the number of bytes read (the text is only printed).
read_string_inexact(b, p, max_len) ==
    LET read(n) == [ok |-> TRUE, kind |-> "none", val |-> <<n>>, pos |-> p + n]
    IN  read(IF Len(b) - p < max_len THEN Len(b) - p ELSE max_len)

\* A read that returns the bytes and leaves the cursor where it was.
read_bytes_peek(b, p, n_bytes) == [cursor_read_exact(b, p, n_bytes) EXCEPT !.pos = p]

read_bytes(b, p, n_bytes) == cursor_read_exact(b, p, n_bytes)

read_exact(b, p, n) == cursor_read_exact(b, p, n)

\* A skip that seeks without comparing the target with the file length.
skip_bytes_unchecked(b, p, n_bytes) ==
    LET seek(target) ==
            [ok |-> TRUE, kind |-> "none", val |-> <<>>,
             pos |-> IF IsSmall(target) THEN IntOf(target) ELSE p]
    IN  seek(BigAdd(Big(p), n_bytes).val)

\* A skip that stops at the end of the file when the target is beyond it.
skip_bytes_truncating(b, p, n_bytes) ==
    LET seek(target, file_len) ==
            [ok |-> TRUE, kind |-> "none", val |-> <<>>,
             pos |-> IF BigLt(file_len, target) THEN Len(b) ELSE IntOf(target)]
    IN  seek(BigAdd(Big(p), n_bytes).val, Big(Len(b)))

\* n_bytes is a u32 (limbs).  ok = FALSE is the Err(String) the caller gets:
\* it names n_bytes, pos, target and the file length.
skip_bytes(b, p, n_bytes) ==
    LET seek(target, file_len) ==
            IF BigLt(file_len, target)
            THEN [ok |-> FALSE, kind |-> "seek",
                  val |-> <<n_bytes[1], n_bytes[2], p, Len(b)>>, pos |-> p]
            ELSE [ok |-> TRUE, kind |-> "none", val |-> <<>>, pos |-> IntOf(target)]
    IN  seek(BigAdd(Big(p), n_bytes).val, Big(Len(b)))


(***************************************************************************)
(* Panics.  A panic ends the program; err keeps what its message names.     *)
(***************************************************************************)
NoErr == [kind |-> "none", site |-> "", box_type |-> <<>>, offset |-> 0, size |-> Big(0)]

Panic(kind, site) == [NoErr EXCEPT !.kind = kind, !.site = site]

(***************************************************************************)
(* The Reader on its own: any sequence of its operations on a small buffer. *)
(***************************************************************************)
MaxReaderLen == 9

MaxArg == 3

\* Byte patterns the buffers repeat: zeros, ASCII, an invalid UTF-8 byte, a
\* two-byte UTF-8 character, a small integer, a byte with the top bit set.
Patterns ==
    { <<0>>, <<65>>, <<255>>, <<195, 169>>, <<0, 0, 0, 1>>,
      <<128, 1, 2, 3>>, <<1, 2, 3, 4, 5, 6, 7, 8>> }

Repeat(pat, n) == [i \in 1..n |-> pat[((i - 1) % Len(pat)) + 1]]

ReaderBufs == { Repeat(pat, n) : pat \in Patterns, n \in 0..MaxReaderLen }

\* 2^32 - 1, the largest skip a caller can ask for.
U32Max == <<Base - 1, Base - 1, 0, 0>>

SkipArgs == { Big(n) : n \in 0..MaxArg } \cup { U32Max }

NoOp == [op |-> "new", p |-> 0, w |-> 0, ok |-> TRUE, kind |-> "none", val |-> <<>>]

InitReader ==
    /\ buf \in ReaderBufs
    /\ pos = 0
    /\ status = "running"
    /\ err = NoErr
    /\ stack = <<>>
    /\ trace = <<>>
    /\ driver = "reader"
    /\ overflow_checks = TRUE
    /\ tracks = <<>>
    /\ current_track = <<>>
    /\ indent = 4
    /\ last = NoOp

\* Where the cursor is after a read.  Cursor::read_exact that runs out of
\* bytes leaves the cursor where it was or puts it at the end of the buffer,
\* as the standard library of the build has it.
after_read(b, r) == IF r.kind = "eof" THEN {r.pos, Len(b)} ELSE {r.pos}

\* The caller `unwrap`s inside the read methods: a failed read is a panic.
Called(op, w, r) ==
    /\ status = "running"
    /\ driver = "reader"
    /\ pos' \in after_read(buf, r)
    /\ last' = [op |-> op, p |-> pos, w |-> w, ok |-> r.ok, kind |-> r.kind, val |-> r.val]
    /\ status' = IF r.ok THEN "running" ELSE "panic"
    /\ err' = IF r.ok THEN NoErr ELSE Panic(r.kind, op)
    /\ UNCHANGED <<buf, driver, overflow_checks, walk>>

DoPosition ==
    /\ status = "running"
    /\ driver = "reader"
    /\ last' = [op |-> "position", p |-> pos, w |-> 0, ok |-> TRUE, kind |-> "none",
                val |-> <<position(pos)>>]
    /\ UNCHANGED <<buf, pos, status, err, driver, overflow_checks, walk>>

DoReadU8 == Called("read_u8", 1, read_u8(buf, pos))

DoReadU16 == Called("read_u16", 2, read_u16(buf, pos))

DoReadI16 == Called("read_i16", 2, read_i16(buf, pos))

DoReadU32 == Called("read_u32", 4, read_u32(buf, pos))

DoReadI32 == Called("read_i32", 4, read_i32(buf, pos))

DoReadU64 == Called("read_u64", 8, read_u64(buf, pos))

DoReadFixed1616 == Called("read_fixed_point_16_16", 4, read_fixed_point_16_16(buf, pos))

DoReadFixed88 == Called("read_fixed_point_8_8", 2, read_fixed_point_8_8(buf, pos))

DoReadString == \E len \in 0..MaxArg : Called("read_string", len, read_string(buf, pos, len))

DoReadStringInexact ==
    \E max_len \in 0..MaxArg :
        Called("read_string_inexact", max_len, read_string_inexact(buf, pos, max_len))

DoReadBytes == \E n \in 0..MaxArg : Called("read_bytes", n, read_bytes(buf, pos, n))

DoReadExact == \E n \in 0..MaxArg : Called("read_exact", n, read_exact(buf, pos, n))

\* skip_bytes returns its error to the caller: the Reader stays usable.
DoSkipBytes ==
    \E n \in SkipArgs :
        LET r == skip_bytes(buf, pos, n)
        IN  /\ status = "running"
            /\ driver = "reader"
            /\ pos' = r.pos
            /\ last' = [op |-> "skip_bytes", p |-> pos, w |-> n[1], ok |-> r.ok,
                        kind |-> r.kind, val |-> r.val]
            /\ UNCHANGED <<buf, status, err, driver, overflow_checks, walk>>

NextReader ==
    \/ DoPosition
    \/ DoReadU8
    \/ DoReadU16
    \/ DoReadI16
    \/ DoReadU32
    \/ DoReadI32
    \/ DoReadU64
    \/ DoReadFixed1616
    \/ DoReadFixed88
    \/ DoReadString
    \/ DoReadStringInexact
    \/ DoReadBytes
    \/ DoReadExact
    \/ DoSkipBytes

SpecReader == InitReader /\ [][NextReader]_vars


(***************************************************************************)
(* Box type tags, as the scalar values of their four characters             *)
(***************************************************************************)
T_ftyp == <<102, 116, 121, 112>>
T_free == <<102, 114, 101, 101>>
T_mdat == <<109, 100, 97, 116>>
T_moov == <<109, 111, 111, 118>>
T_mvhd == <<109, 118, 104, 100>>
T_trak == <<116, 114, 97, 107>>
T_tkhd == <<116, 107, 104, 100>>
T_edts == <<101, 100, 116, 115>>
T_elst == <<101, 108, 115, 116>>
T_mdia == <<109, 100, 105, 97>>
T_mdhd == <<109, 100, 104, 100>>
T_hdlr == <<104, 100, 108, 114>>
T_minf == <<109, 105, 110, 102>>
T_vmhd == <<118, 109, 104, 100>>
T_smhd == <<115, 109, 104, 100>>
T_dinf == <<100, 105, 110, 102>>
T_dref == <<100, 114, 101, 102>>
T_stbl == <<115, 116, 98, 108>>
T_stsd == <<115, 116, 115, 100>>
T_stts == <<115, 116, 116, 115>>
T_stss == <<115, 116, 115, 115>>
T_ctts == <<99, 116, 116, 115>>
T_stsc == <<115, 116, 115, 99>>
T_stsz == <<115, 116, 115, 122>>
T_stco == <<115, 116, 99, 111>>
T_sgpd == <<115, 103, 112, 100>>
T_sbgp == <<115, 98, 103, 112>>
T_sdtp == <<115, 100, 116, 112>>
T_mvex == <<109, 118, 101, 120>>
T_trex == <<116, 114, 101, 120>>
T_moof == <<109, 111, 111, 102>>
T_mfhd == <<109, 102, 104, 100>>
T_traf == <<116, 114, 97, 102>>
T_mfra == <<109, 102, 114, 97>>
T_udta == <<117, 100, 116, 97>>
T_meta == <<109, 101, 116, 97>>
T_ilst == <<105, 108, 115, 116>>
T_url == <<117, 114, 108, 32>>
T_mp4a == <<109, 112, 52, 97>>
T_avc1 == <<97, 118, 99, 49>>
\* "©too": the copyright sign is the single scalar value 169.
T_too == <<169, 116, 111, 111>>

(***************************************************************************)
(* Box headers (boxes.rs)                                                   *)
(***************************************************************************)
NoHeader == [start_offset |-> 0, box_size |-> Big(0), box_type |-> <<>>,
             inner_size |-> Big(0), largesize |-> FALSE]

\* A decoding that replaces what is not UTF-8 by U+FFFD.
decode_box_type_lossy(bytes) ==
    IF Utf8Valid(bytes) THEN Utf8Decode(bytes) ELSE [k \in 1..Len(bytes) |-> 65533]

\* String::from_utf8(box_type), or else one character per byte.
decode_box_type(bytes) == IF Utf8Valid(bytes) THEN Utf8Decode(bytes) ELSE bytes

\* A weaker assertion: any size but 0.
size_is_positive(size) == BigLe(Big(1), size)

\* The assertion on the normalised size.
size_is_valid(size) == BigLe(Big(8), size)

\* A header parser that gives size 0 no meaning of its own.
size_never_extends_to_eof(size) == FALSE

\* `size == 0`: the box is declared to extend to the end of the file.
size_extends_to_eof(size) == size = Big(0)

\* `let inner_size = size - 8`, whichever header variant was read.
header_inner_size(size) == BigSub(size, Big(8)).val

\* Yields [ok, pos, err, header].  largesize is not a field of the program's
\* BoxHeader: it records which header variant was read.
BoxHeader_parse(b, p) ==
    LET site == "BoxHeader::parse"
        fail(e, q) == [ok |-> FALSE, pos |-> q, err |-> e, header |-> NoHeader]
        finish(size, box_type, q, large) ==
            IF ~size_is_valid(size)
            THEN fail([kind |-> "assert", site |-> "invalid size", box_type |-> box_type,
                       offset |-> p, size |-> size], q)
            ELSE [ok |-> TRUE, pos |-> q, err |-> NoErr,
                  header |-> [start_offset |-> p, box_size |-> size, box_type |-> box_type,
                              inner_size |-> header_inner_size(size), largesize |-> large]]
        largesize(box_type, r3) ==
            IF ~r3.ok THEN fail(Panic(r3.kind, site), r3.pos)
            ELSE finish(r3.val, box_type, r3.pos, TRUE)
        sized(size, box_type, q) ==
            IF size = Big(1) THEN largesize(box_type, read_u64(b, q))
            ELSE IF size_extends_to_eof(size)
                 THEN fail([kind |-> "todo", site |-> "size=0", box_type |-> box_type,
                            offset |-> p, size |-> Big(0)],
                           read_string_inexact(b, q, 256).pos)
            ELSE finish(size, box_type, q, FALSE)
        typed(size, r2) ==
            IF ~r2.ok THEN fail(Panic(r2.kind, site), r2.pos)
            ELSE sized(size, decode_box_type(r2.val), r2.pos)
        start(r1) ==
            IF ~r1.ok THEN fail(Panic(r1.kind, site), r1.pos)
            ELSE typed(r1.val, read_bytes(b, r1.pos, 4))
    IN  start(read_u32(b, p))

\* A full-box header of a version byte and four flag bytes.
FullBoxHeader_parse_wide(b, p) ==
    LET none(kind, q) == [ok |-> FALSE, kind |-> kind, pos |-> q, version |-> 0, flags |-> <<>>]
        with_flags(v, r2) ==
            IF ~r2.ok THEN none(r2.kind, r2.pos)
            ELSE [ok |-> TRUE, kind |-> "none", pos |-> r2.pos, version |-> v, flags |-> r2.val]
        with_version(r1) ==
            IF ~r1.ok THEN none(r1.kind, r1.pos)
            ELSE with_flags(r1.val[1], read_exact(b, r1.pos, 4))
    IN  with_version(read_u8(b, p))

\* Yields [ok, kind, pos, version, flags].
FullBoxHeader_parse(b, p) ==
    LET none(kind, q) == [ok |-> FALSE, kind |-> kind, pos |-> q, version |-> 0, flags |-> <<>>]
        with_flags(v, r2) ==
            IF ~r2.ok THEN none(r2.kind, r2.pos)
            ELSE [ok |-> TRUE, kind |-> "none", pos |-> r2.pos, version |-> v, flags |-> r2.val]
        with_version(r1) ==
            IF ~r1.ok THEN none(r1.kind, r1.pos)
            ELSE with_flags(r1.val[1], read_exact(b, r1.pos, 3))
    IN  with_version(read_u8(b, p))

(***************************************************************************)
(* Payload parsers (boxes.rs).  A parser is a fixed sequence of Reader      *)
(* calls; a field is <<operation, length>>.  Every parser yields            *)
(*   [ok, pos, err, box]   with   box = [variant, version, flags, vals]     *)
(* where vals holds the values read, in order.                              *)
(***************************************************************************)
ReadField(b, p, f) ==
    CASE f[1] = "u8" -> read_u8(b, p)
      [] f[1] = "u16" -> read_u16(b, p)
      [] f[1] = "i16" -> read_i16(b, p)
      [] f[1] = "u32" -> read_u32(b, p)
      [] f[1] = "i32" -> read_i32(b, p)
      [] f[1] = "fixed16" -> read_fixed_point_16_16(b, p)
      [] f[1] = "fixed8" -> read_fixed_point_8_8(b, p)
      [] f[1] = "string" -> read_string(b, p, f[2])
      [] f[1] = "bytes" -> read_bytes(b, p, f[2])
      [] f[1] = "skip" -> skip_bytes(b, p, Big(f[2]))

RECURSIVE RunFields(_, _, _, _)
RunFields(b, p, fields, vals) ==
    LET next(r) ==
            IF ~r.ok THEN [ok |-> FALSE, kind |-> r.kind, pos |-> r.pos, vals |-> vals]
            ELSE RunFields(b, r.pos, Tail(fields), Append(vals, r.val))
    IN  IF fields = <<>> THEN [ok |-> TRUE, kind |-> "none", pos |-> p, vals |-> vals]
        ELSE next(ReadField(b, p, Head(fields)))

NoBox == [variant |-> "None", version |-> 0, flags |-> <<>>, vals |-> <<>>]

Parsed(variant, version, flags, vals, p) ==
    [ok |-> TRUE, pos |-> p, err |-> NoErr,
     box |-> [variant |-> variant, version |-> version, flags |-> flags, vals |-> vals]]

Failed(e, p) == [ok |-> FALSE, pos |-> p, err |-> e, box |-> NoBox]

\* A parser that reads `fields` and nothing else.
Plain(b, p, variant, fields) ==
    LET done(r) ==
            IF ~r.ok THEN Failed(Panic(r.kind, variant), r.pos)
            ELSE Parsed(variant, 0, <<>>, r.vals, r.pos)
    IN  done(RunFields(b, p, fields, <<>>))

\* A parser that reads a full-box header, then `fields`; with v1_todo it is
\* `todo!` for version 1.
FullBox(b, p, variant, v1_todo, fields) ==
    LET done(fb, r) ==
            IF ~r.ok THEN Failed(Panic(r.kind, variant), r.pos)
            ELSE Parsed(variant, fb.version, fb.flags, r.vals, r.pos)
        body(fb) ==
            IF ~fb.ok THEN Failed(Panic(fb.kind, variant), fb.pos)
            ELSE IF v1_todo /\ fb.version = 1 THEN Failed(Panic("todo", variant), fb.pos)
            ELSE done(fb, RunFields(b, fb.pos, fields, <<>>))
    IN  body(FullBoxHeader_parse(b, p))

Times(n, f) == [i \in 1..n |-> f]

\* `for _ in 0..remaining / 4 { read_string(4) }`
RECURSIVE ReadBrands(_, _, _, _)
ReadBrands(b, p, i, remaining) ==
    LET next(r) == IF ~r.ok THEN r ELSE ReadBrands(b, r.pos, i + 1, remaining)
    IN  IF BigLe(Big(4 * (i + 1)), remaining) THEN next(read_string(b, p, 4))
        ELSE [ok |-> TRUE, kind |-> "none", val |-> <<i>>, pos |-> p]

\* oc: the build checks integer overflow.
FileTypeBox_parse(b, p, inner_size, oc) ==
    LET done(h, brands) ==
            IF ~brands.ok THEN Failed(Panic(brands.kind, "Ftyp"), brands.pos)
            ELSE Parsed("Ftyp", 0, <<>>, h.box.vals, brands.pos)
        compatible_brands(h, remaining) ==
            IF ~h.ok THEN h
            ELSE IF remaining.overflow /\ oc THEN Failed(Panic("overflow", "Ftyp"), h.pos)
            ELSE done(h, ReadBrands(b, h.pos, 0, remaining.val))
    IN  compatible_brands(Plain(b, p, "Ftyp", << <<"string", 4>>, <<"u32", 0>> >>),
                          BigSub(inner_size, Big(8)))

MediaDataBox_parse(b, p, inner_size) ==
    LET done(r) ==
            IF ~r.ok THEN Failed(Panic(r.kind, "Mdat"), r.pos)
            ELSE Parsed("Mdat", 0, <<>>, <<>>, r.pos)
    IN  done(skip_bytes(b, p, AsU32(inner_size)))

\* A parser of free space that takes the payload as it comes.
FreeSpaceBox_parse_lenient(b, p, inner_size) == Parsed("Free", 0, <<>>, <<>>, p)

FreeSpaceBox_parse(b, p, inner_size) ==
    IF inner_size = Big(0) THEN Parsed("Free", 0, <<>>, <<>>, p)
    ELSE Failed(Panic("assert", "Free"), p)

MovieHeaderBox_parse(b, p) ==
    FullBox(b, p, "Mvhd", TRUE,
            Times(4, <<"u32", 0>>) \o << <<"fixed16", 0>>, <<"fixed8", 0>>,
                                         <<"string", 2>>, <<"string", 8>> >>
            \o Times(9, <<"u32", 0>>) \o Times(6, <<"u32", 0>>) \o << <<"u32", 0>> >>)

\* vals[3] is the track id.
TrackHeaderBox_parse(b, p) ==
    FullBox(b, p, "Tkhd", TRUE,
            Times(3, <<"u32", 0>>) \o << <<"string", 4>>, <<"u32", 0>>, <<"string", 8>>,
                                         <<"u16", 0>>, <<"u16", 0>>, <<"fixed8", 0>>,
                                         <<"string", 2>> >>
            \o Times(9, <<"u32", 0>>) \o Times(2, <<"u32", 0>>))

\* vals[1] is the entry count.
EditListBox_parse_header(b, p) == FullBox(b, p, "Elst", TRUE, << <<"u32", 0>> >>)

\* A decoding that leaves out the `<< 3` of the second character.
language_code_unshifted(language) ==
    LET from_utf8(cs) ==
            IF Utf8Valid(cs) THEN [ok |-> TRUE, val |-> Utf8Decode(cs)]
            ELSE [ok |-> FALSE, val |-> <<>>]
    IN  from_utf8(<< ((language[1] \div 4) % 32) + 96,
                     (language[1] % 4) + (language[2] \div 32) + 96,
                     (language[2] % 32) + 96 >>)

\* The three characters of the two language bytes, each 5 bits + 0x60:
\*   c1 = ((language[0] & 0b0111_1100) >> 2) + 0x60
\*   c2 = ((language[0] & 0b0000_0011) << 3) + ((language[1] & 0b1110_0000) >> 5) + 0x60
\*   c3 = (language[1] & 0b0001_1111) + 0x60
\* then String::from_utf8(vec![c1, c2, c3]).  Yields [ok, val]; no sum
\* leaves the range of a u8.
language_code(language) ==
    LET from_utf8(cs) ==
            IF Utf8Valid(cs) THEN [ok |-> TRUE, val |-> Utf8Decode(cs)]
            ELSE [ok |-> FALSE, val |-> <<>>]
    IN  from_utf8(<< ((language[1] \div 4) % 32) + 96,
                     ((language[1] % 4) * 8) + (language[2] \div 32) + 96,
                     (language[2] % 32) + 96 >>)

\* vals[5] is the language code, vals[6] the two pre_defined bytes.
MediaHeaderBox_parse(b, p) ==
    LET pre_defined(h, lang, r) ==
            IF ~r.ok THEN Failed(Panic(r.kind, "Mdhd"), r.pos)
            ELSE Parsed("Mdhd", h.box.version, h.box.flags,
                        Append([h.box.vals EXCEPT ![5] = lang.val], r.val), r.pos)
        decoded(h, lang) ==
            IF ~lang.ok THEN Failed(Panic("utf8", "Mdhd"), h.pos)
            ELSE pre_defined(h, lang, read_bytes(b, h.pos, 2))
        language(h) == IF ~h.ok THEN h ELSE decoded(h, language_code(h.box.vals[5]))
    IN  language(FullBox(b, p, "Mdhd", TRUE,
                         Times(4, <<"u32", 0>>) \o << <<"bytes", 2>> >>))

HandlerReferenceBox_parse(b, p, inner_size, oc) ==
    LET done(h, name) ==
            IF ~name.ok THEN Failed(Panic(name.kind, "Hdlr"), name.pos)
            ELSE Parsed("Hdlr", h.box.version, h.box.flags, Append(h.box.vals, name.val),
                        name.pos)
        \* read_string(remaining as usize): a length no buffer of the model
        \* holds cannot be read.
        read_name(h, remaining) ==
            IF ~h.ok THEN h
            ELSE IF remaining.overflow /\ oc THEN Failed(Panic("overflow", "Hdlr"), h.pos)
            ELSE IF ~IsSmall(remaining.val) THEN Failed(Panic("eof", "Hdlr"), h.pos)
            ELSE done(h, read_string(b, h.pos, IntOf(remaining.val)))
    IN  read_name(FullBox(b, p, "Hdlr", FALSE,
                          << <<"string", 4>>, <<"string", 4>>, <<"string", 12>> >>),
                  BigSub(inner_size, Big(24)))

VideoMediaHandler_parse(b, p) ==
    FullBox(b, p, "Vmhd", FALSE, << <<"u16", 0>>, <<"bytes", 6>> >>)

SoundMediaHandler_parse(b, p) ==
    FullBox(b, p, "Smhd", FALSE, << <<"fixed8", 0>>, <<"bytes", 2>> >>)

DataReferenceBox_parse(b, p) == FullBox(b, p, "Dref", FALSE, << <<"u32", 0>> >>)

SampleDescriptionBox_parse_header(b, p) == FullBox(b, p, "Stsd", FALSE, << <<"u32", 0>> >>)

DecodingTimeToSampleBox_parse_header(b, p) == FullBox(b, p, "Stts", TRUE, << <<"u32", 0>> >>)

SyncSampleBox_parse_header(b, p) == FullBox(b, p, "Stss", FALSE, << <<"u32", 0>> >>)

CompositionTimeToSampleBox_parse_header(b, p) ==
    FullBox(b, p, "Ctts", FALSE, << <<"u32", 0>> >>)

SampleToChunkBox_parse_header(b, p) == FullBox(b, p, "Stsc", FALSE, << <<"u32", 0>> >>)

SampleSizeBox_parse_header(b, p) ==
    FullBox(b, p, "Stsz", FALSE, << <<"u32", 0>>, <<"u32", 0>> >>)

ChunkOffsetBox_parse_header(b, p) == FullBox(b, p, "Stco", FALSE, << <<"u32", 0>> >>)

SampleGroupDescriptionBox_parse_header(b, p) == Plain(b, p, "Sgpd", <<>>)

SampleToGroupBox_parse_header(b, p) == Plain(b, p, "Sbgp", <<>>)

SampleDependencyTypeBox_parse_header(b, p) == Plain(b, p, "Sdtp", <<>>)

TrackExtendsBox_parse(b, p) == FullBox(b, p, "Trex", FALSE, Times(5, <<"u32", 0>>))

MovieFragmentHeaderBox_parse(b, p) == FullBox(b, p, "Mfhd", FALSE, << <<"u32", 0>> >>)

ContainerTags ==
    { T_moov, T_trak, T_edts, T_mdia, T_minf, T_dinf, T_stbl, T_mvex, T_moof,
      T_traf, T_mfra, T_udta }

\* Mp4Box::parse_contents: box.variant = "None" is the None it returns for a
\* type it does not know.
Mp4Box_parse_contents(b, p, box_type, inner_size, oc) ==
    CASE box_type = T_ftyp -> FileTypeBox_parse(b, p, inner_size, oc)
      [] box_type = T_free -> FreeSpaceBox_parse(b, p, inner_size)
      [] box_type = T_mdat -> MediaDataBox_parse(b, p, inner_size)
      [] box_type \in ContainerTags -> Parsed("Container", 0, <<>>, <<>>, p)
      [] box_type = T_mvhd -> MovieHeaderBox_parse(b, p)
      [] box_type = T_tkhd -> TrackHeaderBox_parse(b, p)
      [] box_type = T_elst -> EditListBox_parse_header(b, p)
      [] box_type = T_mdhd -> MediaHeaderBox_parse(b, p)
      [] box_type = T_hdlr -> HandlerReferenceBox_parse(b, p, inner_size, oc)
      [] box_type = T_vmhd -> VideoMediaHandler_parse(b, p)
      [] box_type = T_smhd -> SoundMediaHandler_parse(b, p)
      [] box_type = T_dref -> DataReferenceBox_parse(b, p)
      [] box_type = T_stsd -> SampleDescriptionBox_parse_header(b, p)
      [] box_type = T_stts -> DecodingTimeToSampleBox_parse_header(b, p)
      [] box_type = T_stss -> SyncSampleBox_parse_header(b, p)
      [] box_type = T_ctts -> CompositionTimeToSampleBox_parse_header(b, p)
      [] box_type = T_stsc -> SampleToChunkBox_parse_header(b, p)
      [] box_type = T_stsz -> SampleSizeBox_parse_header(b, p)
      [] box_type = T_stco -> ChunkOffsetBox_parse_header(b, p)
      [] box_type = T_sgpd -> SampleGroupDescriptionBox_parse_header(b, p)
      [] box_type = T_sbgp -> SampleToGroupBox_parse_header(b, p)
      [] box_type = T_sdtp -> SampleDependencyTypeBox_parse_header(b, p)
      [] box_type = T_trex -> TrackExtendsBox_parse(b, p)
      [] box_type = T_mfhd -> MovieFragmentHeaderBox_parse(b, p)
      [] box_type = T_meta -> FullBox(b, p, "Container", FALSE, <<>>)
      [] box_type = T_ilst -> Parsed("QuickTimeMetadataItemList", 0, <<>>, <<>>, p)
      [] OTHER -> Parsed("None", 0, <<>>, <<>>, p)

(***************************************************************************)
(* Sample entries and metadata items (boxes.rs, quicktime.rs)               *)
(***************************************************************************)
\* vals[4] channel count, vals[5] sample size, vals[8] sample rate (16.16).
Mp4aAudioSampleEntry_parse(b, p) ==
    Plain(b, p, "Mp4a",
          << <<"string", 6>>, <<"u16", 0>>, <<"bytes", 8>>, <<"u16", 0>>, <<"u16", 0>>,
             <<"bytes", 2>>, <<"bytes", 2>>, <<"fixed16", 0>> >>)

\* vals[6] width, vals[7] height.
Avc1VisualSampleEntry_parse(b, p) ==
    Plain(b, p, "Avc1",
          << <<"string", 6>>, <<"u16", 0>>, <<"skip", 2>>, <<"skip", 2>>, <<"skip", 12>>,
             <<"u16", 0>>, <<"u16", 0>>, <<"fixed16", 0>>, <<"fixed16", 0>>, <<"skip", 4>>,
             <<"u16", 0>>, <<"string", 32>>, <<"u16", 0>>, <<"skip", 2>> >>)

\* Yields [ok, pos, err, box, header].
SampleDescriptionBox_parse_entry(b, p) ==
    LET done(h, r) ==
            [ok |-> r.ok, pos |-> r.pos, err |-> r.err, box |-> r.box, header |-> h.header]
        entry(h) ==
            IF ~h.ok
            THEN [ok |-> FALSE, pos |-> h.pos, err |-> h.err, box |-> NoBox, header |-> NoHeader]
            ELSE IF h.header.box_type = T_mp4a THEN done(h, Mp4aAudioSampleEntry_parse(b, h.pos))
            ELSE IF h.header.box_type = T_avc1 THEN done(h, Avc1VisualSampleEntry_parse(b, h.pos))
            ELSE done(h, Failed([kind |-> "unhandled", site |-> "sample description entry",
                                 box_type |-> h.header.box_type, offset |-> p, size |-> Big(0)],
                                h.pos))
    IN  entry(BoxHeader_parse(b, p))

\* read_string(inner_size as usize)
EncoderTag_parse(b, p, inner_size) ==
    LET done(r) ==
            IF ~r.ok THEN Failed(Panic(r.kind, "EncoderTag"), r.pos)
            ELSE Parsed("EncoderTag", 0, <<>>, <<r.val>>, r.pos)
    IN  IF IsSmall(inner_size) THEN done(read_string(b, p, IntOf(inner_size)))
        ELSE Failed(Panic("eof", "EncoderTag"), p)

MetadataItemList_parse_entry(b, p) ==
    LET done(h, r) ==
            [ok |-> r.ok, pos |-> r.pos, err |-> r.err, box |-> r.box, header |-> h.header]
        entry(h) ==
            IF ~h.ok
            THEN [ok |-> FALSE, pos |-> h.pos, err |-> h.err, box |-> NoBox, header |-> NoHeader]
            ELSE IF h.header.box_type = T_too
                 THEN done(h, EncoderTag_parse(b, h.pos, h.header.inner_size))
            ELSE done(h, Failed([kind |-> "todo", site |-> "quicktime metadata item entry",
                                 box_type |-> h.header.box_type, offset |-> p, size |-> Big(0)],
                                h.pos))
    IN  entry(BoxHeader_parse(b, p))


(***************************************************************************)
(* The driver loops (bin/parse.rs, bin/info.rs)                             *)
(***************************************************************************)
\* `box_start_offset + header.box_size`
box_end_offset(box_start_offset, box_size) == BigAdd(Big(box_start_offset), box_size)

\* `reader.skip_bytes(header.inner_size as u32)` for a box of unknown type.
skip_unknown(b, p, inner_size) == skip_bytes(b, p, AsU32(inner_size))

\* The end of an iteration: `remaining = (box_end_offset - position) as u32`,
\* skipped when positive.  Yields [ok, kind, pos].
skip_remaining(b, p, box_end, oc) ==
    LET done(r) == [ok |-> r.ok, kind |-> r.kind, pos |-> r.pos]
        skip(d, remaining) ==
            IF d.overflow /\ oc THEN [ok |-> FALSE, kind |-> "overflow", pos |-> p]
            ELSE IF remaining = Big(0) THEN [ok |-> TRUE, kind |-> "none", pos |-> p]
            ELSE done(skip_bytes(b, p, remaining))
        cast(d) == skip(d, AsU32(d.val))
    IN  cast(BigSub(box_end, Big(p)))

NoEntries(p) == [ok |-> TRUE, pos |-> p, err |-> NoErr, entries |-> <<>>]

Entry(p, e) == [start_offset |-> p, box_type |-> e.header.box_type,
                box_size |-> e.header.box_size, variant |-> e.box.variant,
                vals |-> e.box.vals, end_pos |-> e.pos]

\* `for _ in 0..entry_count { parse_entry(reader) }`.  has_track is info.rs's
\* `self.current_track.as_mut().unwrap()` after each entry; parse.rs has none.
RECURSIVE stsd_entries(_, _, _, _, _, _)
stsd_entries(b, p, i, entry_count, has_track, acc) ==
    LET next(e) ==
            IF ~e.ok THEN [ok |-> FALSE, pos |-> e.pos, err |-> e.err, entries |-> acc]
            ELSE IF ~has_track
                 THEN [ok |-> FALSE, pos |-> e.pos, err |-> Panic("unwrap_none", "current_track"),
                       entries |-> Append(acc, Entry(p, e))]
            ELSE stsd_entries(b, e.pos, i + 1, entry_count, has_track, Append(acc, Entry(p, e)))
    IN  IF BigLt(Big(i), entry_count) THEN next(SampleDescriptionBox_parse_entry(b, p))
        ELSE [ok |-> TRUE, pos |-> p, err |-> NoErr, entries |-> acc]

\* `while reader.position() < box_end_offset { parse_entry(reader) }`
RECURSIVE ilst_entries(_, _, _, _)
ilst_entries(b, p, box_end, acc) ==
    LET next(e) ==
            IF ~e.ok THEN [ok |-> FALSE, pos |-> e.pos, err |-> e.err, entries |-> acc]
            ELSE ilst_entries(b, e.pos, box_end, Append(acc, Entry(p, e)))
    IN  IF BigLt(Big(p), box_end) THEN next(MetadataItemList_parse_entry(b, p))
        ELSE [ok |-> TRUE, pos |-> p, err |-> NoErr, entries |-> acc]

\* What one iteration of a driver loop comes to:
\*   "panic"    the program panicked (err says how)
\*   "skipped"  a box of unknown type was skipped (`continue`)
\*   "enter"    a container: the driver calls itself on [pos, box_end)
\*   "leaf"     any other box, after the skip of its remainder
\* read_end is the position before that skip: where the box's parser and the
\* reading of its entries stopped.
Outcome(outcome, p, e, header, box, box_end, entries) ==
    [outcome |-> outcome, pos |-> p, err |-> e, header |-> header, box |-> box,
     box_end |-> box_end, entries |-> entries, read_end |-> p]

\* One iteration of _parse's loop (parse.rs), up to the recursive call.
parse_iteration(b, p, handle_unknown, oc) ==
    LET finish(hd, c, be, ents, post) ==
            IF ~post.ok
            THEN Outcome("panic", post.pos, Panic(post.kind, "skip remaining"), hd, c.box, be,
                         ents.entries)
            ELSE [Outcome("leaf", post.pos, NoErr, hd, c.box, be, ents.entries)
                    EXCEPT !.read_end = ents.pos]
        with_entries(hd, c, be, ents) ==
            IF ~ents.ok THEN Outcome("panic", ents.pos, ents.err, hd, c.box, be, ents.entries)
            ELSE finish(hd, c, be, ents, skip_remaining(b, ents.pos, be, oc))
        known(hd, c, be) ==
            IF be.overflow /\ oc
            THEN Outcome("panic", c.pos, Panic("overflow", "box_end_offset"), hd, c.box, Big(0), <<>>)
            ELSE IF c.box.variant = "Container"
            THEN Outcome("enter", c.pos, NoErr, hd, c.box, be.val, <<>>)
            ELSE IF c.box.variant = "Stsd"
            THEN with_entries(hd, c, be.val, stsd_entries(b, c.pos, 0, c.box.vals[1], TRUE, <<>>))
            ELSE IF c.box.variant = "QuickTimeMetadataItemList"
            THEN with_entries(hd, c, be.val, ilst_entries(b, c.pos, be.val, <<>>))
            ELSE with_entries(hd, c, be.val, NoEntries(c.pos))
        unknown(hd, c, sk) ==
            IF ~sk.ok
            THEN Outcome("panic", sk.pos, Panic("seek", "Truncated box"), hd, c.box, Big(0), <<>>)
            ELSE Outcome("skipped", sk.pos, NoErr, hd, c.box, Big(0), <<>>)
        contents(hd, c) ==
            IF ~c.ok THEN Outcome("panic", c.pos, c.err, hd, NoBox, Big(0), <<>>)
            ELSE IF c.box.variant = "None"
                 THEN IF handle_unknown = "Skip"
                      THEN unknown(hd, c, skip_unknown(b, c.pos, hd.inner_size))
                      ELSE Outcome("panic", c.pos,
                                   [kind |-> "todo", site |-> "Unhandled box",
                                    box_type |-> hd.box_type, offset |-> p,
                                    size |-> hd.inner_size],
                                   hd, c.box, Big(0), <<>>)
            ELSE known(hd, c, box_end_offset(p, hd.box_size))
        header(h) ==
            IF ~h.ok THEN Outcome("panic", h.pos, h.err, NoHeader, NoBox, Big(0), <<>>)
            ELSE contents(h.header,
                          Mp4Box_parse_contents(b, h.pos, h.header.box_type,
                                                h.header.inner_size, oc))
    IN  header(BoxHeader_parse(b, p))

\* The policy _parse hands to the recursive call for a container's children.
child_policy(box_type) == "Skip"

\* An iteration that steps over a container instead of calling the loop on
\* its children.
info_iteration_flat(b, p, oc, has_track) ==
    LET flat(o) ==
            IF o.outcome = "enter" /\ IsSmall(o.box_end) /\ IntOf(o.box_end) <= Len(b)
            THEN [o EXCEPT !.outcome = "leaf", !.pos = IntOf(o.box_end)]
            ELSE IF o.outcome = "leaf" /\ o.box.variant \in {"Tkhd", "Stsd"} /\ ~has_track
            THEN [o EXCEPT !.outcome = "panic", !.err = Panic("unwrap_none", "current_track")]
            ELSE o
    IN  flat(parse_iteration(b, p, "Skip", oc))

\* One iteration of Parser::parse's loop (info.rs), up to the recursive call.
\* has_track: current_track is Some once the header has been handled.
info_iteration(b, p, oc, has_track) ==
    LET finish(hd, c, be, ents, post) ==
            IF ~post.ok
            THEN Outcome("panic", post.pos, Panic(post.kind, "skip remaining"), hd, c.box, be,
                         ents.entries)
            ELSE [Outcome("leaf", post.pos, NoErr, hd, c.box, be, ents.entries)
                    EXCEPT !.read_end = ents.pos]
        with_entries(hd, c, be, ents) ==
            IF ~ents.ok THEN Outcome("panic", ents.pos, ents.err, hd, c.box, be, ents.entries)
            ELSE finish(hd, c, be, ents, skip_remaining(b, ents.pos, be, oc))
        known(hd, c, be) ==
            IF be.overflow /\ oc
            THEN Outcome("panic", c.pos, Panic("overflow", "box_end_offset"), hd, c.box, Big(0), <<>>)
            ELSE IF c.box.variant = "Container"
            THEN Outcome("enter", c.pos, NoErr, hd, c.box, be.val, <<>>)
            ELSE IF c.box.variant = "Tkhd" /\ ~has_track
            THEN Outcome("panic", c.pos, Panic("unwrap_none", "current_track"), hd, c.box,
                         be.val, <<>>)
            ELSE IF c.box.variant = "Stsd"
            THEN with_entries(hd, c, be.val,
                              stsd_entries(b, c.pos, 0, c.box.vals[1], has_track, <<>>))
            ELSE with_entries(hd, c, be.val, NoEntries(c.pos))
        unknown(hd, c, sk) ==
            IF ~sk.ok
            THEN Outcome("panic", sk.pos, Panic("seek", "Truncated box"), hd, c.box, Big(0), <<>>)
            ELSE Outcome("skipped", sk.pos, NoErr, hd, c.box, Big(0), <<>>)
        contents(hd, c) ==
            IF ~c.ok THEN Outcome("panic", c.pos, c.err, hd, NoBox, Big(0), <<>>)
            ELSE IF c.box.variant = "None"
                 THEN unknown(hd, c, skip_unknown(b, c.pos, hd.inner_size))
            ELSE known(hd, c, box_end_offset(p, hd.box_size))
        header(h) ==
            IF ~h.ok THEN Outcome("panic", h.pos, h.err, NoHeader, NoBox, Big(0), <<>>)
            ELSE contents(h.header,
                          Mp4Box_parse_contents(b, h.pos, h.header.box_type,
                                                h.header.inner_size, oc))
    IN  header(BoxHeader_parse(b, p))


(***************************************************************************)
(* The first parser (parser.rs), which main.rs runs: one function,          *)
(* parse_box, that reads a header and the whole payload of a box and calls  *)
(* itself for the children of a container.                                  *)
(***************************************************************************)
\* The header part of parse_box: the type is read with read_string.
parse_box_header(b, p) ==
    LET site == "parse_box"
        fail(e, q) == [ok |-> FALSE, pos |-> q, err |-> e, header |-> NoHeader]
        finish(size, box_type, q, large) ==
            IF ~size_is_valid(size)
            THEN fail([kind |-> "assert", site |-> "invalid size", box_type |-> box_type,
                       offset |-> p, size |-> size], q)
            ELSE [ok |-> TRUE, pos |-> q, err |-> NoErr,
                  header |-> [start_offset |-> p, box_size |-> size, box_type |-> box_type,
                              inner_size |-> header_inner_size(size), largesize |-> large]]
        largesize(box_type, r3) ==
            IF ~r3.ok THEN fail(Panic(r3.kind, site), r3.pos)
            ELSE finish(r3.val, box_type, r3.pos, TRUE)
        typed(size, r2) ==
            IF ~r2.ok THEN fail(Panic(r2.kind, site), r2.pos)
            ELSE IF size = Big(1) THEN largesize(r2.val, read_u64(b, r2.pos))
            ELSE IF size_extends_to_eof(size)
                 THEN fail([kind |-> "todo", site |-> "size=0", box_type |-> r2.val,
                            offset |-> p, size |-> Big(0)],
                           read_string_inexact(b, r2.pos, 256).pos)
            ELSE finish(size, r2.val, r2.pos, FALSE)
        start(r1) ==
            IF ~r1.ok THEN fail(Panic(r1.kind, site), r1.pos)
            ELSE typed(r1.val, read_string(b, r1.pos, 4))
    IN  start(read_u32(b, p))

\* `k * entry_count` in u32 arithmetic, for k = 4 or 8: [val, overflow].
u32_times(k, n) ==
    LET product(full) == [val |-> AsU32(full), overflow |-> full # AsU32(full)]
        double(x) == BigAdd(x, x).val
    IN  IF k = 4 THEN product(double(double(n))) ELSE product(double(double(double(n))))

\* A box whose payload is skipped whole: `skip_bytes(inner_size as u32)`.
skip_payload(b, p, variant, inner_size) ==
    LET done(r) ==
            IF ~r.ok THEN Failed(Panic(r.kind, variant), r.pos)
            ELSE Parsed(variant, 0, <<>>, <<>>, r.pos)
    IN  done(skip_bytes(b, p, AsU32(inner_size)))

\* A table box: full-box header, entry count, then `skip_bytes(k * entry_count)`.
skip_table(b, p, variant, k, oc) ==
    LET done(h, r) ==
            IF ~r.ok THEN Failed(Panic(r.kind, variant), r.pos)
            ELSE Parsed(variant, h.box.version, h.box.flags, h.box.vals, r.pos)
        entries(h, n) ==
            IF n.overflow /\ oc THEN Failed(Panic("overflow", variant), h.pos)
            ELSE done(h, skip_bytes(b, h.pos, n.val))
        counted(h) == IF ~h.ok THEN h ELSE entries(h, u32_times(k, h.box.vals[1]))
    IN  counted(FullBox(b, p, variant, FALSE, << <<"u32", 0>> >>))

\* The edit list: each entry is `todo!` for version 1, 12 bytes otherwise.
RECURSIVE elst_entries(_, _, _, _, _)
elst_entries(b, p, i, entry_count, version) ==
    LET next(r) == IF ~r.ok THEN r ELSE elst_entries(b, r.pos, i + 1, entry_count, version)
    IN  IF BigLt(Big(i), entry_count)
        THEN IF version = 1 THEN [ok |-> FALSE, kind |-> "todo", pos |-> p, vals |-> <<>>]
             ELSE next(RunFields(b, p, << <<"u32", 0>>, <<"i32", 0>>, <<"i16", 0>>,
                                          <<"i16", 0>> >>, <<>>))
        ELSE [ok |-> TRUE, kind |-> "none", pos |-> p, vals |-> <<>>]

legacy_elst(b, p) ==
    LET done(h, r) ==
            IF ~r.ok THEN Failed(Panic(r.kind, "Elst"), r.pos)
            ELSE Parsed("Elst", h.box.version, h.box.flags, h.box.vals, r.pos)
        counted(h) ==
            IF ~h.ok THEN h
            ELSE done(h, elst_entries(b, h.pos, 0, h.box.vals[1], h.box.version))
    IN  counted(FullBox(b, p, "Elst", FALSE, << <<"u32", 0>> >>))

legacy_url(b, p) ==
    LET flagged(h) ==
            IF ~h.ok \/ h.box.flags = <<0, 0, 1>> THEN h
            ELSE Failed(Panic("todo", "external media URL"), h.pos)
    IN  flagged(FullBox(b, p, "Url", FALSE, <<>>))

\* "avc1" | "mp4a": 8 bytes, then the rest of the entry is skipped.
legacy_sample_entry(b, p, inner_size, oc) ==
    LET done(h, r) ==
            IF ~r.ok THEN Failed(Panic(r.kind, "SampleEntry"), r.pos)
            ELSE Parsed("SampleEntry", 0, <<>>, h.box.vals, r.pos)
        rest(h, remaining) ==
            IF ~h.ok THEN h
            ELSE IF remaining.overflow /\ oc THEN Failed(Panic("overflow", "SampleEntry"), h.pos)
            ELSE done(h, skip_bytes(b, h.pos, AsU32(remaining.val)))
    IN  rest(Plain(b, p, "SampleEntry", << <<"string", 6>>, <<"u16", 0>> >>),
             BigSub(inner_size, Big(8)))

LegacyContainerTags == { T_moov, T_trak, T_edts, T_mdia, T_minf, T_dinf, T_stbl, T_udta }

\* The policy parse_box hands to the children of a box.
legacy_child_policy(box_type) ==
    IF box_type = T_udta \/ box_type = T_stsd THEN "Skip" ELSE "Panic"

\* The payload part of parse_box, for a box that is not a container:
\* [ok, pos, err, box]; variant "None" is the `_` arm.
legacy_contents(b, p, box_type, inner_size, oc) ==
    CASE box_type = T_ftyp -> FileTypeBox_parse(b, p, inner_size, oc)
      [] box_type = T_free -> FreeSpaceBox_parse(b, p, inner_size)
      [] box_type = T_mdat -> MediaDataBox_parse(b, p, inner_size)
      [] box_type = T_mvhd -> MovieHeaderBox_parse(b, p)
      [] box_type = T_tkhd -> TrackHeaderBox_parse(b, p)
      [] box_type = T_elst -> legacy_elst(b, p)
      [] box_type = T_mdhd -> MediaHeaderBox_parse(b, p)
      [] box_type = T_hdlr -> HandlerReferenceBox_parse(b, p, inner_size, oc)
      [] box_type = T_vmhd -> VideoMediaHandler_parse(b, p)
      [] box_type = T_smhd -> SoundMediaHandler_parse(b, p)
      [] box_type = T_url -> legacy_url(b, p)
      [] box_type \in {T_avc1, T_mp4a} -> legacy_sample_entry(b, p, inner_size, oc)
      [] box_type = T_stts -> skip_table(b, p, "Stts", 8, oc)
      [] box_type = T_stss -> skip_table(b, p, "Stss", 4, oc)
      [] box_type \in {T_ctts, T_stsc, T_stsz, T_stco, T_sgpd, T_sbgp, T_sdtp, T_ilst} ->
            skip_payload(b, p, "Skipped", inner_size)
      [] OTHER -> Parsed("None", 0, <<>>, <<>>, p)

\* One call of parse_box up to its first call of itself.  Outcomes:
\*   "panic", "leaf" (the call returned), "skipped" (unknown type, skipped),
\*   "range" (children until box_end), "count" (box_end children: an entry count).
legacy_iteration(b, p, handle_unknown, oc) ==
    LET container == [NoBox EXCEPT !.variant = "Container"]
        range(hd, q, end_offset) ==
            IF end_offset.overflow /\ oc
            THEN Outcome("panic", q, Panic("overflow", "end_offset"), hd, NoBox, Big(0), <<>>)
            ELSE Outcome("range", q, NoErr, hd, container, end_offset.val, <<>>)
        meta_range(hd, fb, remaining) ==
            IF ~fb.ok THEN Outcome("panic", fb.pos, Panic(fb.kind, "meta"), hd, NoBox, Big(0), <<>>)
            ELSE IF remaining.overflow /\ oc
            THEN Outcome("panic", fb.pos, Panic("overflow", "meta"), hd, NoBox, Big(0), <<>>)
            ELSE range(hd, fb.pos, BigAdd(Big(fb.pos), remaining.val))
        count(hd, c) ==
            IF ~c.ok THEN Outcome("panic", c.pos, c.err, hd, NoBox, Big(0), <<>>)
            ELSE Outcome("count", c.pos, NoErr, hd, c.box, c.box.vals[1], <<>>)
        unknown(hd, c, sk) ==
            IF ~sk.ok
            THEN Outcome("panic", sk.pos, Panic("seek", "Truncated box"), hd, c.box, Big(0), <<>>)
            ELSE Outcome("skipped", sk.pos, NoErr, hd, c.box, Big(0), <<>>)
        leaf(hd, c) ==
            IF ~c.ok THEN Outcome("panic", c.pos, c.err, hd, NoBox, Big(0), <<>>)
            ELSE IF c.box.variant = "None"
                 THEN IF handle_unknown = "Skip"
                      THEN unknown(hd, c, skip_unknown(b, c.pos, hd.inner_size))
                      ELSE Outcome("panic", c.pos,
                                   [kind |-> "todo", site |-> "Unhandled box",
                                    box_type |-> hd.box_type, offset |-> p,
                                    size |-> hd.inner_size],
                                   hd, c.box, Big(0), <<>>)
            ELSE Outcome("leaf", c.pos, NoErr, hd, c.box, Big(0), <<>>)
        contents(hd, q) ==
            IF hd.box_type \in LegacyContainerTags
            THEN range(hd, q, BigAdd(Big(q), hd.inner_size))
            ELSE IF hd.box_type = T_meta
            THEN meta_range(hd, FullBoxHeader_parse(b, q), BigSub(hd.inner_size, Big(4)))
            ELSE IF hd.box_type \in {T_dref, T_stsd}
            THEN count(hd, FullBox(b, q, "Counted", FALSE, << <<"u32", 0>> >>))
            ELSE leaf(hd, legacy_contents(b, q, hd.box_type, hd.inner_size, oc))
        header(h) ==
            IF ~h.ok THEN Outcome("panic", h.pos, h.err, NoHeader, NoBox, Big(0), <<>>)
            ELSE contents(h.header, h.pos)
    IN  header(parse_box_header(b, p))


(***************************************************************************)
(* Input files.  A file is built from boxes whose size fields are written   *)
(* as the encoders below write them, so that the buffers hold well-formed   *)
(* files as well as the malformed ones the parsers must reject.             *)
(***************************************************************************)
MaxPad == 1
MaxBrands == 1
MaxSizeField == 9
MaxCut == 1

T_zzzz == <<122, 122, 122, 122>>
\* Not UTF-8: the tag of a box that only the byte-per-character reading names.
T_bad == <<255, 122, 122, 122>>
T_isom == <<105, 115, 111, 109>>
\* "\u{e9}zz": UTF-8 of three characters in four bytes.
T_accent == <<195, 169, 122, 122>>

Zeros(n) == [i \in 1..n |-> 0]
U16(n) == <<(n \div 256) % 256, n % 256>>
U32(n) == <<(n \div (256 * Base)) % 256, (n \div Base) % 256, (n \div 256) % 256, n % 256>>
U64(a) == U16(a[4]) \o U16(a[3]) \o U16(a[2]) \o U16(a[1])

SizedBox(size, tag, payload) == U32(size) \o tag \o payload
Box(tag, payload) == SizedBox(8 + Len(payload), tag, payload)
LargeBox(size, tag, payload) == U32(1) \o tag \o U64(size) \o payload
\* 2^32 + n
Huge(n) == <<n, 0, 1, 0>>

Ftyp(k) == Box(T_ftyp, T_isom \o U32(0) \o Repeat(T_isom, 4 * k))
Free == Box(T_free, <<>>)
Smhd(pad) == Box(T_smhd, Zeros(8 + 8 * pad))
Stts(n) == Box(T_stts, Zeros(4) \o U32(n) \o Zeros(8 * n))
Mvhd(version) == Box(T_mvhd, <<version>> \o Zeros(99))
Tkhd(id) == Box(T_tkhd, Zeros(12) \o U32(id) \o Zeros(68))
Mp4aEntry == Box(T_mp4a, Zeros(16) \o U16(2) \o U16(16) \o Zeros(4) \o U16(48000) \o U16(0))
\* Two channels at 44100 Hz.
Mp4a44100 == Box(T_mp4a, Zeros(16) \o U16(2) \o U16(16) \o Zeros(4) \o U16(44100) \o U16(0))
Avc1Entry == Box(T_avc1, Zeros(24) \o U16(640) \o U16(480) \o Zeros(50))
Stsd(entries, n) == Box(T_stsd, Zeros(4) \o U32(n) \o entries)
Url(flag) == Box(T_url, <<0, 0, 0, flag>>)
Dref(entries, n) == Box(T_dref, Zeros(4) \o U32(n) \o entries)
Ilst(tag) == Box(T_ilst, Box(tag, <<76, 97, 118, 102>>))
Hdlr(name) == Box(T_hdlr, Zeros(8) \o T_isom \o Zeros(12) \o name)
Mdhd == Box(T_mdhd, Zeros(20) \o <<85, 196>> \o Zeros(2))
Elst(version, n) == Box(T_elst, <<version>> \o Zeros(3) \o U32(n) \o Zeros(12 * n))

\* Boxes that carry no children.
Leaves ==
    { Ftyp(k) : k \in 0..MaxBrands }
    \cup { Free, SizedBox(8 + 8, T_free, Free), Mvhd(0), Mvhd(1), Tkhd(1), Mdhd,
           Mp4aEntry, Url(1), Url(0), Hdlr(<<>>), Hdlr(<<255>>),
           Ilst(T_too), Ilst(T_zzzz), Box(T_stco, Zeros(8)), Box(T_mfhd, Zeros(8)) }
    \cup { Smhd(pad) : pad \in 0..MaxPad }
    \cup { Box(T_smhd, Zeros(8) \o Free), Box(T_stts, Zeros(8) \o Free) }
    \* Boxes that declare a size shorter than what their parser reads.
    \cup { SizedBox(20, T_mvhd, Zeros(100)), SizedBox(20, T_tkhd, Zeros(12) \o U32(1) \o Zeros(68)),
           SizedBox(12, T_smhd, Zeros(8)) }
    \cup { Stts(n) : n \in 0..MaxPad }
    \cup { Elst(v, n) : v \in 0..1, n \in 0..MaxPad }
    \cup { Box(T_mdat, Zeros(8 * n)) : n \in 0..MaxPad }
    \cup { Box(tag, Zeros(8 * n)) : tag \in {T_zzzz, T_bad}, n \in 0..MaxPad }
    \cup { Box(T_accent, <<>>), Box(T_too, <<>>), SizedBox(4, T_accent, <<>>) }
    \cup { SizedBox(size, tag, <<>>) : size \in 0..MaxSizeField, tag \in {T_zzzz, T_bad, T_free} }
    \cup { LargeBox(Big(size), tag, <<>>) : size \in 0..MaxSizeField, tag \in {T_zzzz, T_free} }
    \cup { LargeBox(Big(16 + 8 * pad), T_zzzz, Zeros(8 * pad)) : pad \in 0..MaxPad }
    \cup { LargeBox(Big(16), T_free, <<>>), LargeBox(Big(16), T_zzzz, Zeros(8)) }
    \cup { LargeBox(Huge(28), T_stts, Zeros(12)), LargeBox(Huge(16), T_zzzz, <<>>),
           LargeBox(Huge(16), T_mdat, <<>>), LargeBox(Big(28), T_stts, Zeros(12)),
           LargeBox(Big(32), T_smhd, Zeros(16)) }
    \cup { Stsd(Mp4aEntry, n) : n \in 0..(1 + MaxPad) }
    \cup { Stsd(Avc1Entry, 1), Stsd(Box(T_zzzz, <<>>), 1), Stsd(Mp4aEntry \o Avc1Entry, 2),
           Dref(Url(1), 1), Dref(Url(1) \o Url(1), 2), Dref(<<>>, 1),
           Dref(Url(0), 1), Dref(Url(1) \o Url(0), 2), Dref(Free, 1) }
    \cup { Box(T_ilst, Box(T_too, <<76, 97, 118, 102>>) \o Box(T_too, <<>>)),
           SizedBox(16, T_ilst, Box(T_too, <<76, 97, 118, 102>>)),
           Box(T_ilst, Box(T_too, <<255>>)),
           Stsd(Box(T_mp4a, Zeros(28) \o Mp4a44100) \o Avc1Entry, 2) }

Track(id, entry) ==
    Box(T_trak, Tkhd(id) \o Box(T_mdia, Box(T_minf, Box(T_stbl, Stsd(entry, 1)))))

\* The children of one container: a box alone, or with a sibling after it.
Bodies == Leaves \cup { x \o Free : x \in Leaves }

\* Boxes of a type no parser knows, and a leaf with unread trailing bytes.
Probes ==
    { Box(T_zzzz, <<>>), Box(T_zzzz, Zeros(8)), LargeBox(Big(16), T_zzzz, <<>>),
      LargeBox(Big(16), T_zzzz, Zeros(8)), SizedBox(0, T_zzzz, <<>>), Smhd(1) }

Wrappers == { T_moov, T_udta }

PartialWrappers == { T_trak, T_edts, T_mdia, T_minf, T_dinf, T_stbl, T_mvex, T_moof,
                     T_traf, T_mfra }

Nested ==
    { Box(c, x) : c \in Wrappers, x \in Bodies }
    \cup { Box(c, x \o Free) : c \in PartialWrappers, x \in Probes }
    \cup { Box(T_meta, Zeros(4) \o x \o Free) : x \in Probes }
    \cup { Box(T_moov, Box(T_udta, x) \o Free) : x \in Probes }
    \cup { Box(T_udta, Box(T_moov, x) \o Free) : x \in Probes }
    \cup { LargeBox(Big(16 + Len(x)), T_moov, x) : x \in Probes }
    \cup { Box(T_moov, Track(1, Mp4aEntry) \o Track(2, Avc1Entry)),
           Box(T_moov, Box(T_trak, Tkhd(1))), Box(T_moov, Box(T_trak, Stsd(Mp4aEntry, 1))),
           Box(T_trak, Track(1, Mp4aEntry)), Box(T_moov, Tkhd(1)),
           Box(T_moov, Box(T_trak, Tkhd(1) \o Stsd(<<>>, 0))),
           Box(T_moov, Box(T_trak, Tkhd(1) \o Stsd(Mp4a44100, 1))),
           Box(T_moov, Box(T_trak, Tkhd(1) \o Tkhd(2) \o Stsd(Mp4aEntry \o Avc1Entry, 2))),
           Box(T_meta, Zeros(3)),
           SizedBox(8 + 8, T_moov, Box(T_smhd, Zeros(8)) \o Free),
           SizedBox(8 + 16 + 8, T_moov, Box(T_smhd, Zeros(8))) }

Cut(x, k) == IF k < Len(x) THEN SubSeq(x, 1, Len(x) - k) ELSE <<>>

Files ==
    Bodies \cup Nested \cup { Ftyp(0) \o x : x \in Bodies \cup Nested } \cup { <<>> }

Inputs == { Cut(x, k) : x \in Files, k \in 0..MaxCut }


(***************************************************************************)
(* The three programs as state machines.  A step is one iteration of a      *)
(* driver loop; a call of the driver on a container's children is a frame   *)
(* on `stack`, and the exit of its loop pops the frame and finishes the     *)
(* iteration of the caller.  `trace` lists the boxes in the order met.      *)
(***************************************************************************)
Drivers == { "parse", "info", "legacy" }

\* A call of the driver: it reads children while position < end_offset
\* (mode "range") or `left` more children (mode "count", parser.rs only);
\* idx is the place in trace of the box whose children they are (0: the file).
Frame(end_offset, handle_unknown, idx, mode, left) ==
    [end_offset |-> end_offset, handle_unknown |-> handle_unknown, idx |-> idx,
     mode |-> mode, left |-> left]

\* A call on the whole buffer under `HandleUnknown::Skip`.
RootFrameSkip(b) == Frame(Big(Len(b)), "Skip", 0, "range", Big(0))

\* parse_mp4: the call on the whole buffer, `HandleUnknown::Panic`.
RootFrame(b) == Frame(Big(Len(b)), "Panic", 0, "range", Big(0))

Init ==
    /\ buf \in Inputs
    /\ driver \in Drivers
    /\ overflow_checks \in BOOLEAN
    /\ pos = 0
    /\ status = "running"
    /\ err = NoErr
    /\ stack = << RootFrame(buf) >>
    /\ trace = <<>>
    /\ tracks = <<>>
    /\ current_track = <<>>
    /\ indent = 4
    /\ last = NoOp

Top == stack[Len(stack)]

Pop == SubSeq(stack, 1, Len(stack) - 1)

\* A Logger whose increase_indent adds two columns.
increase_indent_by_two(n) == n + 2

\* Logger::increase_indent and Logger::decrease_indent on indent n.
increase_indent(n) == n + 4

decrease_indent(n) == n - 4

\* parse.rs runs the entries of these boxes between increase_indent and
\* decrease_indent.
EntryVariants == { "Stsd", "QuickTimeMetadataItemList" }

\* The indent the entries of an iteration are reported at.
entry_indent(o, n) == IF o.box.variant \in EntryVariants THEN increase_indent(n) ELSE n

\* Logger.indent after an iteration of _parse that began at indent n: raised
\* for the call on a container, raised and lowered around the entries of a
\* box, left raised by a panic between the two.
indent_after(o, n) ==
    IF o.outcome = "enter" THEN increase_indent(n)
    ELSE IF o.box.variant \in EntryVariants
         THEN IF o.outcome = "panic"
              THEN IF o.err.site = "box_end_offset" THEN n
                   ELSE IF o.err.site = "skip remaining" THEN decrease_indent(increase_indent(n))
                   ELSE increase_indent(n)
              ELSE decrease_indent(increase_indent(n))
    ELSE n

\* The record of one iteration in trace.
TraceBox(o, p) ==
    [start_offset |-> p,
     hdr_ok |-> o.header # NoHeader,
     box_type |-> IF o.header # NoHeader THEN o.header.box_type ELSE o.err.box_type,
     box_size |-> o.header.box_size,
     inner_size |-> o.header.inner_size,
     largesize |-> o.header.largesize,
     variant |-> o.box.variant,
     vals |-> o.box.vals,
     outcome |-> o.outcome,
     policy |-> Top.handle_unknown,
     depth |-> Len(stack),
     parent |-> Top.idx,
     indent |-> indent,
     entry_indent |-> entry_indent(o, indent),
     entries |-> o.entries,
     box_end |-> o.box_end,
     read_end |-> o.read_end,
     end_pos |-> o.pos,
     done |-> o.outcome \in {"leaf", "skipped"}]

LoopCondition ==
    IF Top.mode = "range" THEN BigLt(Big(pos), Top.end_offset) ELSE BigLt(Big(0), Top.left)

\* _parse: one iteration of `while reader.position() < end_offset`.
ParseBox ==
    /\ driver = "parse"
    /\ status = "running"
    /\ LoopCondition
    /\ LET step(o) ==
               /\ pos' = o.pos
               /\ trace' = Append(trace, TraceBox(o, pos))
               /\ status' = IF o.outcome = "panic" THEN "panic" ELSE status
               /\ err' = o.err
               /\ stack' = IF o.outcome = "enter"
                           THEN Append(stack, Frame(o.box_end, child_policy(o.header.box_type),
                                                    Len(trace) + 1, "range", Big(0)))
                           ELSE stack
               /\ indent' = indent_after(o, indent)
       IN  step(parse_iteration(buf, pos, Top.handle_unknown, overflow_checks))
    /\ UNCHANGED <<buf, driver, overflow_checks, tracks, current_track, last>>

\* _parse returns to the iteration that called it: decrease_indent, then the
\* skip of what remains of the container.
ParseReturn ==
    /\ driver = "parse"
    /\ status = "running"
    /\ ~LoopCondition
    /\ Len(stack) > 1
    /\ LET step(post) ==
               /\ pos' = post.pos
               /\ status' = IF post.ok THEN status ELSE "panic"
               /\ err' = IF post.ok THEN err ELSE Panic(post.kind, "skip remaining")
               /\ trace' = [trace EXCEPT ![Top.idx].done = post.ok,
                                         ![Top.idx].end_pos = post.pos]
       IN  step(skip_remaining(buf, pos, trace[Top.idx].box_end, overflow_checks))
    /\ stack' = Pop
    /\ indent' = decrease_indent(indent)
    /\ UNCHANGED <<buf, driver, overflow_checks, tracks, current_track, last>>

\* parse_mp4 returns.
ParseDone ==
    /\ driver = "parse"
    /\ status = "running"
    /\ ~LoopCondition
    /\ Len(stack) = 1
    /\ status' = "done"
    /\ UNCHANGED <<buf, pos, err, stack, trace, driver, overflow_checks, tracks,
                   current_track, indent, last>>


\* info.rs: Option<TrackBuilder> as a sequence of at most one record whose
\* id and info are themselves options.
NewTrackBuilder == << [id |-> <<>>, info |-> <<>>] >>

\* A summary that takes the sample size for the channel count and the
\* resolution for the height.
TrackInfoMisread(entry) ==
    IF entry.variant = "Mp4a"
    THEN [kind |-> "Audio", channel_count |-> entry.vals[5], sample_rate |-> entry.vals[8]]
    ELSE [kind |-> "Video", width |-> entry.vals[6], height |-> entry.vals[8]]

\* TrackInfo::Audio(channel_count, sample_rate) or TrackInfo::Video(width, height)
TrackInfo(entry) ==
    IF entry.variant = "Mp4a"
    THEN [kind |-> "Audio", channel_count |-> entry.vals[4], sample_rate |-> entry.vals[8]]
    ELSE [kind |-> "Video", width |-> entry.vals[6], height |-> entry.vals[7]]

\* A close that reports a track without id or kind when none was seen.
close_track_defaulted(ct, ts) ==
    [ok |-> TRUE,
     tracks |-> Append(ts, [id |-> IF ct = <<>> \/ ct[1].id = <<>> THEN Big(0) ELSE ct[1].id[1],
                            info |-> IF ct = <<>> \/ ct[1].info = <<>> THEN [kind |-> "None"]
                                     ELSE ct[1].info[1]])]

\* The end of an iteration on a "trak" box: take().unwrap(), id.unwrap(),
\* info.unwrap(), push.  Yields [ok, tracks].
close_track(ct, ts) ==
    IF ct = <<>> \/ ct[1].id = <<>> \/ ct[1].info = <<>>
    THEN [ok |-> FALSE, tracks |-> ts]
    ELSE [ok |-> TRUE, tracks |-> Append(ts, [id |-> ct[1].id[1], info |-> ct[1].info[1]])]

\* Parser::parse: one iteration of `while reader.position() < end_offset`.
InfoBox ==
    /\ driver = "info"
    /\ status = "running"
    /\ LoopCondition
    /\ LET builder(ct1, o) ==
               IF o.outcome = "leaf" /\ o.box.variant = "Tkhd"
               THEN << [ct1[1] EXCEPT !.id = <<o.box.vals[3]>>] >>
               ELSE IF o.outcome = "leaf" /\ o.box.variant = "Stsd" /\ o.entries # <<>>
               THEN << [ct1[1] EXCEPT !.info = <<TrackInfo(o.entries[Len(o.entries)])>>] >>
               ELSE ct1
           step(ct1, o) ==
               /\ pos' = o.pos
               /\ trace' = Append(trace, TraceBox(o, pos))
               /\ status' = IF o.outcome = "panic" THEN "panic" ELSE status
               /\ err' = o.err
               /\ stack' = IF o.outcome = "enter"
                           THEN Append(stack, Frame(o.box_end, "Skip", Len(trace) + 1,
                                                    "range", Big(0)))
                           ELSE stack
               /\ current_track' = builder(ct1, o)
           track(ct1) == step(ct1, info_iteration(buf, pos, overflow_checks, ct1 # <<>>))
           header(h) ==
               track(IF h.ok /\ h.header.box_type = T_trak THEN NewTrackBuilder
                     ELSE current_track)
       IN  header(BoxHeader_parse(buf, pos))
    /\ UNCHANGED <<buf, driver, overflow_checks, tracks, indent, last>>

\* Parser::parse returns to the iteration that called it: the skip of what
\* remains of the container, then the track is closed if the box is a "trak".
InfoReturn ==
    /\ driver = "info"
    /\ status = "running"
    /\ ~LoopCondition
    /\ Len(stack) > 1
    /\ LET is_trak == trace[Top.idx].box_type = T_trak
           step(post, closed, ok) ==
               /\ pos' = post.pos
               /\ status' = IF ok THEN status ELSE "panic"
               /\ err' = IF ~post.ok THEN Panic(post.kind, "skip remaining")
                         ELSE IF ~ok THEN Panic("unwrap_none", "track")
                         ELSE err
               /\ trace' = [trace EXCEPT ![Top.idx].done = ok, ![Top.idx].end_pos = post.pos]
               /\ tracks' = IF ok /\ is_trak THEN closed.tracks ELSE tracks
               /\ current_track' = IF post.ok /\ is_trak THEN <<>> ELSE current_track
           close(post, closed) == step(post, closed, post.ok /\ (is_trak => closed.ok))
       IN  close(skip_remaining(buf, pos, trace[Top.idx].box_end, overflow_checks),
                 close_track(current_track, tracks))
    /\ stack' = Pop
    /\ UNCHANGED <<buf, driver, overflow_checks, indent, last>>

\* Parser::parse_mp4 returns the Info.
InfoDone ==
    /\ driver = "info"
    /\ status = "running"
    /\ ~LoopCondition
    /\ Len(stack) = 1
    /\ status' = "done"
    /\ UNCHANGED <<buf, pos, err, stack, trace, driver, overflow_checks, tracks,
                   current_track, indent, last>>

\* parser.rs: one call of parse_box, from a `while` or a `for` loop.
LegacyBox ==
    /\ driver = "legacy"
    /\ status = "running"
    /\ LoopCondition
    /\ LET step(o, counted) ==
               /\ pos' = o.pos
               /\ trace' = Append(trace, TraceBox(o, pos))
               /\ status' = IF o.outcome = "panic" THEN "panic" ELSE status
               /\ err' = o.err
               /\ stack' = IF o.outcome = "range"
                           THEN Append(counted, Frame(o.box_end,
                                                      legacy_child_policy(o.header.box_type),
                                                      Len(trace) + 1, "range", Big(0)))
                           ELSE IF o.outcome = "count"
                           THEN Append(counted, Frame(Big(0),
                                                      legacy_child_policy(o.header.box_type),
                                                      Len(trace) + 1, "count", o.box_end))
                           ELSE counted
               /\ indent' = IF o.outcome \in {"range", "count"} THEN indent + 4 ELSE indent
       IN  step(legacy_iteration(buf, pos, Top.handle_unknown, overflow_checks),
                IF Top.mode = "count"
                THEN [stack EXCEPT ![Len(stack)].left = BigSub(Top.left, Big(1)).val]
                ELSE stack)
    /\ UNCHANGED <<buf, driver, overflow_checks, tracks, current_track, last>>

\* The loop over a box's children ends: decrease_indent, parse_box returns.
LegacyReturn ==
    /\ driver = "legacy"
    /\ status = "running"
    /\ ~LoopCondition
    /\ Len(stack) > 1
    /\ trace' = [trace EXCEPT ![Top.idx].done = TRUE, ![Top.idx].end_pos = pos]
    /\ stack' = Pop
    /\ indent' = indent - 4
    /\ UNCHANGED <<buf, pos, status, err, driver, overflow_checks, tracks, current_track, last>>

\* parser.rs parse_mp4 returns.
LegacyDone ==
    /\ driver = "legacy"
    /\ status = "running"
    /\ ~LoopCondition
    /\ Len(stack) = 1
    /\ status' = "done"
    /\ UNCHANGED <<buf, pos, err, stack, trace, driver, overflow_checks, tracks,
                   current_track, indent, last>>

Next ==
    \/ ParseBox
    \/ ParseReturn
    \/ ParseDone
    \/ InfoBox
    \/ InfoReturn
    \/ InfoDone
    \/ LegacyBox
    \/ LegacyReturn
    \/ LegacyDone

Spec == Init /\ [][Next]_vars


(***************************************************************************)
(* The two drivers on one file: parse.rs runs first; when it has returned,  *)
(* what it read is kept in `last` and info.rs runs on the same buffer, in   *)
(* the same build.                                                          *)
(***************************************************************************)
InitPair == Init /\ driver = "parse"

\* What parse.rs read, and the start of info.rs: Reader::new(buf),
\* Parser::new(), self.parse(&mut reader, buf.len() as u64).
Handover ==
    /\ driver = "parse"
    /\ status = "done"
    /\ last = NoOp
    /\ last' = [op |-> "parse_mp4", trace |-> trace, pos |-> pos]
    /\ driver' = "info"
    /\ pos' = 0
    /\ status' = "running"
    /\ err' = NoErr
    /\ stack' = << RootFrame(buf) >>
    /\ trace' = <<>>
    /\ tracks' = <<>>
    /\ current_track' = <<>>
    /\ indent' = 4
    /\ UNCHANGED <<buf, overflow_checks>>

NextPair ==
    \/ ParseBox
    \/ ParseReturn
    \/ ParseDone
    \/ Handover
    \/ InfoBox
    \/ InfoReturn
    \/ InfoDone

SpecPair == InitPair /\ [][NextPair]_vars


(***************************************************************************)
(* The end of an iteration on a file of any length.  The buffer of a file   *)
(* of 4 GiB and more cannot be written out; the skip of the remainder reads *)
(* no byte of it, only its length, so here the file is its length and the   *)
(* position, the length and the end of the box are u64 limbs.               *)
(***************************************************************************)
\* Reader::skip_bytes on a file of length file_len: [ok, kind, pos].
skip_bytes_u64(file_len, position_, n_bytes) ==
    LET seek(target) ==
            IF BigLt(file_len, target)
            THEN [ok |-> FALSE, kind |-> "seek", pos |-> position_]
            ELSE [ok |-> TRUE, kind |-> "none", pos |-> target]
    IN  seek(BigAdd(position_, n_bytes).val)

\* `let remaining = (box_end_offset - reader.position()) as u32;
\*  if remaining > 0 { reader.skip_bytes(remaining).unwrap(); }`
skip_remaining_u64(file_len, position_, box_end, oc) ==
    LET skip(d, remaining) ==
            IF d.overflow /\ oc THEN [ok |-> FALSE, kind |-> "overflow", pos |-> position_]
            ELSE IF remaining = Big(0) THEN [ok |-> TRUE, kind |-> "none", pos |-> position_]
            ELSE skip_bytes_u64(file_len, position_, remaining)
        cast(d) == skip(d, AsU32(d.val))
    IN  cast(BigSub(box_end, position_))

MaxWords == 3

MaxHigh == 1

\* Offsets of whole 8-byte words below 2^32 and above it.
Offsets == { <<8 * n, 0, h, 0>> : n \in 0..MaxWords, h \in 0..MaxHigh }

\* A driver that has read a box up to position_, in a file of file_len bytes:
\* a header was read, so neither the position nor the end of the box is 0.
InitPostStep ==
    /\ buf = <<>>
    /\ pos = 0
    /\ status = "running"
    /\ err = NoErr
    /\ stack = <<>>
    /\ trace = <<>>
    /\ driver = "post_step"
    /\ overflow_checks \in BOOLEAN
    /\ tracks = <<>>
    /\ current_track = <<>>
    /\ indent = 4
    /\ \E f \in Offsets, e \in Offsets \ {Big(0)} :
           \E p \in { q \in Offsets \ {Big(0)} : BigLe(q, f) } :
               last = [op |-> "read", file_len |-> f, p |-> p, box_end |-> e,
                       ok |-> TRUE, kind |-> "none", end_pos |-> p]

\* The skip of the remainder; `unwrap` makes a failed skip a panic.
PostStep ==
    LET done(r) ==
            /\ last' = [last EXCEPT !.op = "post_step", !.ok = r.ok, !.kind = r.kind,
                                    !.end_pos = r.pos]
            /\ status' = IF r.ok THEN "next" ELSE "panic"
            /\ err' = IF r.ok THEN NoErr ELSE Panic(r.kind, "skip remaining")
    IN  /\ status = "running"
        /\ driver = "post_step"
        /\ done(skip_remaining_u64(last.file_len, last.p, last.box_end, overflow_checks))
        /\ UNCHANGED <<buf, pos, driver, overflow_checks, walk>>

NextPostStep == PostStep

SpecPostStep == InitPostStep /\ [][NextPostStep]_vars


(***************************************************************************)
(* The language field of a media header, over all of its values            *)
(* (boxes.rs MediaHeaderBox::parse, parser.rs "mdhd").  `last` holds the    *)
(* two bytes read and what was made of them.                                *)
(***************************************************************************)
Bytes == 0..255

InitLanguage ==
    /\ buf = <<>>
    /\ pos = 0
    /\ status = "running"
    /\ err = NoErr
    /\ stack = <<>>
    /\ trace = <<>>
    /\ driver = "language"
    /\ overflow_checks \in BOOLEAN
    /\ tracks = <<>>
    /\ current_track = <<>>
    /\ indent = 4
    /\ \E b0 \in Bytes, b1 \in Bytes :
           last = [op |-> "read_bytes", language |-> <<b0, b1>>, ok |-> TRUE, val |-> <<>>]

\* `String::from_utf8(vec![c1, c2, c3]).unwrap()`
DecodeLanguage ==
    LET done(r) ==
            /\ last' = [last EXCEPT !.op = "language_code", !.ok = r.ok, !.val = r.val]
            /\ status' = IF r.ok THEN "next" ELSE "panic"
            /\ err' = IF r.ok THEN NoErr ELSE Panic("utf8", "Mdhd")
    IN  /\ status = "running"
        /\ driver = "language"
        /\ done(language_code(last.language))
        /\ UNCHANGED <<buf, pos, driver, overflow_checks, walk>>

NextLanguage == DecodeLanguage

SpecLanguage == InitLanguage /\ [][NextLanguage]_vars


(***************************************************************************)
(* Properties.  The box a trace entry describes spans, by its header,       *)
(* [start_offset, start_offset + box_size).                                 *)
(***************************************************************************)
\* The type tags Mp4Box::parse_contents has an arm for.
KnownTags ==
    ContainerTags \cup
    { T_ftyp, T_free, T_mdat, T_mvhd, T_tkhd, T_elst, T_mdhd, T_hdlr, T_vmhd, T_smhd,
      T_dref, T_stsd, T_stts, T_stss, T_ctts, T_stsc, T_stsz, T_stco, T_sgpd, T_sbgp,
      T_sdtp, T_trex, T_mfhd, T_meta, T_ilst }

\* The type tags parse_box (parser.rs) has an arm for.
LegacyKnownTags ==
    LegacyContainerTags \cup
    { T_ftyp, T_free, T_mdat, T_mvhd, T_tkhd, T_elst, T_mdhd, T_hdlr, T_vmhd, T_smhd,
      T_dref, T_url, T_stsd, T_avc1, T_mp4a, T_stts, T_stss, T_ctts, T_stsc, T_stsz,
      T_stco, T_sgpd, T_sbgp, T_sdtp, T_meta, T_ilst }

Recognised(box_type) ==
    IF driver = "legacy" THEN box_type \in LegacyKnownTags ELSE box_type \in KnownTags

Range(f) == { f[x] : x \in DOMAIN f }

Boxes == 1..Len(trace)

\* box_start + declared_size
DeclaredEnd(i) == BigAdd(Big(trace[i].start_offset), trace[i].box_size).val

\* j is the box read next after i by the same loop.
NextSibling(i, j) ==
    /\ i < j
    /\ trace[j].parent = trace[i].parent
    /\ \A k \in (i + 1)..(j - 1) : trace[k].parent # trace[i].parent

TopLevel == { i \in Boxes : trace[i].parent = 0 }

\* The declared size covers the header that declares it: 8 bytes, or 16 with
\* a largesize.
WellFramed(i) ==
    trace[i].hdr_ok /\ BigLe(Big(IF trace[i].largesize THEN 16 ELSE 8), trace[i].box_size)

\* C1: in parse.rs and info.rs, a recognised leaf box whose declared size
\* covers its header and whose parser (and entry reading) stopped before the
\* declared end of the box has, once the loop
\* iteration is over, the cursor exactly at box_start + declared_size, and
\* the next sibling's header is read there.
C1_LeafEndsAtDeclaredEnd ==
    driver \in {"parse", "info"} =>
        \A i \in Boxes :
            ( /\ trace[i].outcome = "leaf"
              /\ WellFramed(i)
              /\ BigLt(Big(trace[i].read_end), DeclaredEnd(i)) ) =>
                /\ Big(trace[i].end_pos) = DeclaredEnd(i)
                /\ \A j \in Boxes :
                       NextSibling(i, j) => Big(trace[j].start_offset) = DeclaredEnd(i)

\* C2: when parse_mp4 (parse.rs, parser.rs) returns, having met top-level
\* boxes whose declared sizes cover their headers, the cursor is at the
\* length of the buffer and the top-level boxes tile it: the first starts at
\* 0, each next one at the declared end of the one before, the last ends at
\* the length of the buffer.
C2_TopLevelBoxesTile ==
    (driver \in {"parse", "legacy"} /\ status = "done" /\ \A i \in TopLevel : WellFramed(i)) =>
        /\ pos = Len(buf)
        /\ \A i \in TopLevel :
               /\ (\A k \in TopLevel : i <= k) => trace[i].start_offset = 0
               /\ \A j \in TopLevel :
                      NextSibling(i, j) => Big(trace[j].start_offset) = DeclaredEnd(i)
               /\ (\A k \in TopLevel : k <= i) => DeclaredEnd(i) = Big(Len(buf))

\* C3: a box of unknown type that the driver skips (parse.rs), and whose
\* declared size covers its header, is skipped to exactly box_start + declared_size, where the next sibling's header is
\* read, whether its size is the 32-bit field or a 64-bit largesize.
C3_SkippedBoxEndsAtDeclaredEnd ==
    driver = "parse" =>
        \A i \in Boxes :
            (trace[i].outcome = "skipped" /\ WellFramed(i)) =>
                /\ Big(trace[i].end_pos) = DeclaredEnd(i)
                /\ \A j \in Boxes :
                       NextSibling(i, j) => Big(trace[j].start_offset) = DeclaredEnd(i)

ModelledContainers ==
    { T_moov, T_trak, T_edts, T_mdia, T_minf, T_dinf, T_stbl, T_mvex, T_moof, T_meta }

\* C4: in parse.rs, a box of unknown type that is an immediate child of moov,
\* trak, edts, mdia, minf, dinf, stbl, mvex, moof or meta makes the decode
\* fail as an unhandled box; it is never skipped.
C4_UnknownUnderModelledContainerFails ==
    driver = "parse" =>
        \A i \in Boxes :
            ( /\ trace[i].hdr_ok
              /\ trace[i].box_type \notin KnownTags
              /\ trace[i].parent > 0
              /\ trace[trace[i].parent].box_type \in ModelledContainers ) =>
                /\ trace[i].outcome = "panic"
                /\ status = "panic"
                /\ err.site = "Unhandled box"


\* The header bytes of box i as the buffer holds them.
SizeField(i) ==
    LET s == trace[i].start_offset
    IN  <<buf[s + 3] * 256 + buf[s + 4], buf[s + 1] * 256 + buf[s + 2], 0, 0>>

LargesizeField(i) ==
    LET s == trace[i].start_offset
    IN  <<buf[s + 15] * 256 + buf[s + 16], buf[s + 13] * 256 + buf[s + 14],
          buf[s + 11] * 256 + buf[s + 12], buf[s + 9] * 256 + buf[s + 10]>>

TagField(i) == SubSeq(buf, trace[i].start_offset + 5, trace[i].start_offset + 8)

\* The buffer holds the size and the type of box i.
HasFields(i) == trace[i].start_offset + 8 <= Len(buf)

\* The buffer holds all of the header: the largesize too when the size is 1.
HeaderComplete(i) ==
    /\ HasFields(i)
    /\ SizeField(i) = Big(1) => trace[i].start_offset + 16 <= Len(buf)

NormalisedSize(i) == IF SizeField(i) = Big(1) THEN LargesizeField(i) ELSE SizeField(i)

\* parser.rs reads the type as text and panics on a type that is not UTF-8
\* before it looks at the size.
TagReadable(i) == driver = "legacy" => Utf8Valid(TagField(i))

\* The type as the error message prints it: the text, or a character per byte.
TagText(i) == IF Utf8Valid(TagField(i)) THEN Utf8Decode(TagField(i)) ELSE TagField(i)

\* C5: in parse.rs and parser.rs, a top-level box of a type the parser has no
\* arm for makes the decode panic in that iteration with an error naming the
\* type and the inner size: nothing of the payload is consumed, no later box
\* is read, the decode does not return.
C5_TopLevelUnknownFails ==
    driver \in {"parse", "legacy"} =>
        \A i \in TopLevel :
            (trace[i].hdr_ok /\ ~Recognised(trace[i].box_type)) =>
                /\ i = Len(trace)
                /\ trace[i].outcome = "panic"
                /\ status = "panic"
                /\ err.kind = "todo"
                /\ err.site = "Unhandled box"
                /\ err.box_type = TagText(i)
                /\ err.size = trace[i].inner_size
                /\ pos = trace[i].start_offset + (IF trace[i].largesize THEN 16 ELSE 8)

\* A file-type box, then a box of unknown type with a payload, then a box the
\* decode never reaches.
C5_Witness ==
    /\ driver = "parse"
    /\ status = "panic"
    /\ \E i \in TopLevel :
           /\ i > 1
           /\ trace[i].hdr_ok
           /\ ~Recognised(trace[i].box_type)
           /\ trace[i].inner_size # Big(0)
           /\ BigLt(DeclaredEnd(i), Big(Len(buf)))

\* C6: a header is returned only for a normalised size (the 32-bit field, or
\* the largesize when that field is 1) of at least 8, and for a 32-bit size
\* inner_size + 8 is that size; a normalised size below 8 (32-bit 2..7,
\* largesize 0..7) is a panic naming the type, the start offset and the size.
C6_HeaderSizeAtLeastEight ==
    \A i \in Boxes :
        /\ trace[i].hdr_ok =>
               /\ HeaderComplete(i)
               /\ trace[i].box_size = NormalisedSize(i)
               /\ BigLe(Big(8), trace[i].box_size)
               /\ ~trace[i].largesize =>
                      /\ trace[i].box_size = SizeField(i)
                      /\ BigAdd(trace[i].inner_size, Big(8)).val = trace[i].box_size
                      /\ BigLe(trace[i].inner_size, trace[i].box_size)
        /\ (HeaderComplete(i) /\ BigLt(NormalisedSize(i), Big(8))) =>
               /\ ~trace[i].hdr_ok
               /\ i = Len(trace)
               /\ status = "panic"
        /\ ( /\ HeaderComplete(i)
             /\ TagReadable(i)
             /\ SizeField(i) # Big(0)
             /\ BigLt(NormalisedSize(i), Big(8)) ) =>
               /\ err.kind = "assert"
               /\ err.site = "invalid size"
               /\ err.box_type = TagText(i)
               /\ err.offset = trace[i].start_offset
               /\ err.size = NormalisedSize(i)

\* A largesize below 8 on a box inside a container whose own header was
\* returned with a 32-bit size.
C6_Witness ==
    /\ status = "panic"
    /\ err.kind = "assert"
    /\ \E i \in Boxes :
           /\ trace[i].parent > 0
           /\ HeaderComplete(i)
           /\ SizeField(i) = Big(1)
           /\ BigLt(NormalisedSize(i), Big(8))
    /\ \E j \in Boxes :
           trace[j].hdr_ok /\ ~trace[j].largesize /\ trace[j].inner_size # Big(0)

\* C7: a header read with a largesize S (of at least 16, the length of such a
\* header) has inner_size = S - 16.
C7_LargesizeInnerSize ==
    \A i \in Boxes :
        (trace[i].hdr_ok /\ trace[i].largesize /\ BigLe(Big(16), trace[i].box_size)) =>
            trace[i].inner_size = BigSub(trace[i].box_size, Big(16)).val

\* C8: a header whose 32-bit size field is 0 is a panic of its own kind
\* ("todo": not supported), whatever the type and the depth: no header is
\* returned, no end of the box is computed, and the panic is not the one of
\* an invalid size.
C8_SizeZeroIsUnsupported ==
    \A i \in Boxes :
        /\ (HasFields(i) /\ SizeField(i) = Big(0)) =>
               /\ ~trace[i].hdr_ok
               /\ trace[i].box_size = Big(0)
               /\ trace[i].box_end = Big(0)
               /\ i = Len(trace)
               /\ status = "panic"
        /\ (HasFields(i) /\ TagReadable(i) /\ SizeField(i) = Big(0)) =>
            /\ err.kind = "todo"
            /\ err.site = "size=0"
            /\ err.kind # "assert"
            /\ err.box_type = TagText(i)
            /\ pos = IF trace[i].start_offset + 8 + 256 < Len(buf)
                     THEN trace[i].start_offset + 8 + 256 ELSE Len(buf)

\* A size 0 on a box inside a container.
C8_Witness ==
    /\ status = "panic"
    /\ \E i \in Boxes :
           /\ trace[i].depth > 1
           /\ HasFields(i)
           /\ SizeField(i) = Big(0)
           /\ trace[i].start_offset + 8 < Len(buf)


\* C13: the parser of a leaf box reads no byte at or beyond the end of the
\* box: for every box without entries that was decoded to a value (which
\* the driver reports before it looks at the end of the box), the reading
\* of the box stopped at or before start_offset + box_size.
C13_LeafReadsWithinBox ==
    driver \in {"parse", "info"} =>
        \A i \in Boxes :
            ( /\ trace[i].hdr_ok
              /\ WellFramed(i)
              /\ trace[i].entries = <<>>
              /\ trace[i].variant \notin {"None", "Container"} ) =>
                BigLe(Big(trace[i].read_end), DeclaredEnd(i))

\* Where the payload of box i starts.
PayloadStart(i) == trace[i].start_offset + (IF SizeField(i) = Big(1) THEN 16 ELSE 8)

VersionedTags == { T_mvhd, T_tkhd, T_mdhd, T_elst }

\* C14: an mvhd, tkhd, mdhd or elst box that the buffer holds whole and
\* whose version byte is 1 makes the decode panic as not supported (`todo!`), in the iteration that reads the
\* box and whatever follows the version byte; no value of the box is made.
C14_VersionOneFails ==
    \A i \in Boxes :
        ( /\ trace[i].hdr_ok
          /\ trace[i].box_type \in VersionedTags
          /\ BigLe(DeclaredEnd(i), Big(Len(buf)))
          /\ PayloadStart(i) + 4 <= Len(buf)
          /\ buf[PayloadStart(i) + 1] = 1 ) =>
            /\ i = Len(trace)
            /\ status = "panic"
            /\ trace[i].outcome = "panic"
            /\ err.kind = "todo"
            /\ trace[i].vals = <<>>

\* Where the first entry of a sample-description box (after the version,
\* the flags and the entry count) or of a metadata item list starts.
EntryStart(i) == PayloadStart(i) + (IF trace[i].box_type = T_stsd THEN 8 ELSE 0)

EntryTag(i) == SubSeq(buf, EntryStart(i) + 5, EntryStart(i) + 8)

\* Box i is an stsd box with entry_count >= 1 or an ilst box with a payload,
\* and the buffer holds the header of its first entry: a 32-bit size of at
\* least 8 and a tag that has no parser.  Only parse.rs reads the items of
\* an ilst box (MetadataItemList::parse_entry).
UnknownFirstEntry(i) ==
    /\ trace[i].hdr_ok
    /\ trace[i].box_type \in {T_stsd, T_ilst}
    /\ EntryStart(i) + 8 <= Len(buf)
    /\ trace[i].box_type = T_stsd => SubSeq(buf, EntryStart(i) - 3, EntryStart(i)) # Zeros(4)
    /\ trace[i].box_type = T_ilst =>
           driver = "parse" /\ BigLt(Big(EntryStart(i)), DeclaredEnd(i))
    /\ SubSeq(buf, EntryStart(i) + 1, EntryStart(i) + 3) = Zeros(3)
    /\ buf[EntryStart(i) + 4] >= 8
    /\ trace[i].box_type = T_stsd => EntryTag(i) \notin {T_mp4a, T_avc1}
    /\ trace[i].box_type = T_ilst => EntryTag(i) # T_too

\* C15: a sample-description entry that is neither mp4a nor avc1, and a
\* metadata item that is not (c)too, makes the decode panic with an error
\* that names the tag; the entry is not skipped and the decode does not
\* return.
C15_UnknownEntryFails ==
    \A i \in Boxes :
        UnknownFirstEntry(i) =>
            /\ status # "done"
            /\ i < Len(trace) => trace[i + 1].outcome = "panic"
            /\ driver \in {"parse", "info"} =>
                   /\ i = Len(trace)
                   /\ status = "panic"
                   /\ err.kind \in {"unhandled", "todo"}
                   /\ err.box_type = EntryTag(i)

\* The k-th entry (from 0) of a dref box whose entries are 12 bytes each, as
\* a `url ` entry is.
DrefEntry(i, k) == PayloadStart(i) + 8 + 12 * k

\* The buffer holds, as entry k of the dref box i, a `url ` box of 12 bytes
\* whose flags are not 0, 0, 1, after k `url ` boxes of 12 bytes.
ExternalUrlEntry(i, k) ==
    /\ trace[i].hdr_ok
    /\ trace[i].box_type = T_dref
    /\ DrefEntry(i, k) + 12 <= Len(buf)
    /\ BigLe(Big(DrefEntry(i, k) + 12), DeclaredEnd(i))
    /\ SubSeq(buf, PayloadStart(i) + 5, PayloadStart(i) + 7) = Zeros(3)
    /\ buf[PayloadStart(i) + 8] > k
    /\ \A j \in 0..k :
           SubSeq(buf, DrefEntry(i, j) + 1, DrefEntry(i, j) + 8) = U32(12) \o T_url
    /\ SubSeq(buf, DrefEntry(i, k) + 10, DrefEntry(i, k) + 12) # <<0, 0, 1>>

\* C16: a `url ` entry of a dref box whose flags are not 0, 0, 1 makes the
\* decode panic as not supported: the box is not taken as a leaf, nothing
\* is decoded after the entry, and the decode does not return.
C16_ExternalUrlFails ==
    \A i \in Boxes :
        (\E k \in 0..1 : ExternalUrlEntry(i, k)) =>
            /\ status # "done"
            /\ trace[i].outcome \in {"panic", "count"}
            /\ driver \in {"parse", "info"} => i = Len(trace) /\ err.kind = "todo"

\* The trak boxes met, and the k-th of them.
Traks == { i \in Boxes : trace[i].hdr_ok /\ trace[i].box_type = T_trak }

TrakAt(k) == CHOOSE i \in Traks : Cardinality({ j \in Traks : j <= i }) = k

\* Box j lies inside box i.
RECURSIVE Inside(_, _)
Inside(j, i) ==
    /\ trace[j].parent # 0
    /\ trace[j].parent = i \/ Inside(trace[j].parent, i)

\* The tkhd boxes inside trak i, and the stsd boxes inside it with an entry.
TkhdsOf(i) == { j \in Boxes : trace[j].hdr_ok /\ trace[j].box_type = T_tkhd /\ Inside(j, i) }

StsdsOf(i) ==
    { j \in Boxes : /\ trace[j].hdr_ok
                    /\ trace[j].box_type = T_stsd
                    /\ trace[j].entries # <<>>
                    /\ Inside(j, i) }

Latest(S) == CHOOSE j \in S : \A x \in S : x <= j

\* The big-endian 16- and 32-bit fields the buffer holds at an offset.
FieldU16At(q) == <<buf[q + 1] * 256 + buf[q + 2], 0, 0, 0>>

FieldU32At(q) == <<buf[q + 3] * 256 + buf[q + 4], buf[q + 1] * 256 + buf[q + 2], 0, 0>>

\* The summary of an entry that starts at q, from the bytes of the buffer:
\* the channel count and the 16.16 sample rate of an mp4a entry are at 16
\* and 24 of its payload, the width and the height of an avc1 entry at 24
\* and 26.
SummaryAt(q) ==
    IF SubSeq(buf, q + 5, q + 8) = T_mp4a
    THEN [kind |-> "Audio", channel_count |-> FieldU16At(q + 8 + 16),
          sample_rate |-> FieldU32At(q + 8 + 24)]
    ELSE [kind |-> "Video", width |-> FieldU16At(q + 8 + 24),
          height |-> FieldU16At(q + 8 + 26)]

LastEntryStart(j) == trace[j].entries[Len(trace[j].entries)].start_offset

ClosedTraks == { i \in Traks : trace[i].done }

\* C18: info.rs closes a trak into a Track only when a tkhd box and a sample
\* entry were seen inside it; otherwise the close panics (`unwrap` of None)
\* and no Info is returned.  The tracks reported are those of the traks so
\* closed, and Info is returned only when every trak met was so closed.
C18_TrakNeedsHeaderAndEntry ==
    driver = "info" =>
        /\ \A i \in ClosedTraks : TkhdsOf(i) # {} /\ StsdsOf(i) # {}
        /\ Len(tracks) = Cardinality(ClosedTraks)
        /\ status = "done" => ClosedTraks = Traks
        /\ \A i \in Traks :
               (trace[i].outcome = "enter" /\ ~trace[i].done /\ i \notin { f.idx : f \in Range(stack) })
                   => status = "panic"

\* A trak with a tkhd box and an stsd box of entry_count 0, at its close.
C18_Witness ==
    /\ driver = "info"
    /\ status = "panic"
    /\ err = Panic("unwrap_none", "track")
    /\ tracks = <<>>
    /\ \E i \in Traks :
           /\ TkhdsOf(i) # {}
           /\ \E j \in Boxes :
                  /\ Inside(j, i)
                  /\ trace[j].box_type = T_stsd
                  /\ trace[j].outcome = "leaf"
                  /\ trace[j].entries = <<>>

\* The UTF-8 form of a sequence of code points.
RECURSIVE Utf8Encode(_)
Utf8Encode(cs) ==
    IF cs = <<>> THEN <<>>
    ELSE LET c == cs[1]
         IN  (IF c < 128 THEN <<c>>
              ELSE IF c < 2048 THEN <<192 + (c \div 64), 128 + (c % 64)>>
              ELSE IF c < 65536
                   THEN <<224 + (c \div 4096), 128 + ((c \div 64) % 64), 128 + (c % 64)>>
              ELSE <<240 + (c \div 262144), 128 + ((c \div 4096) % 64),
                     128 + ((c \div 64) % 64), 128 + (c % 64)>>)
             \o Utf8Encode(Tail(cs))

\* The four type bytes of the header at offset p of the buffer.
TagBytesAt(p) == SubSeq(buf, p + 5, p + 8)

\* `tag` is the text of `bytes`: the string they encode in UTF-8, or else four
\* characters, the i-th being the code point equal to the i-th byte.
IsTagOf(tag, bytes) ==
    /\ Utf8Valid(bytes) => Utf8Encode(tag) = bytes
    /\ ~Utf8Valid(bytes) => /\ Len(tag) = 4
                            /\ \A k \in 1..4 : tag[k] = bytes[k]
    /\ bytes = <<169, 116, 111, 111>> => tag = <<169, 116, 111, 111>>

\* C19: BoxHeader::parse (the header reader of parse.rs, info.rs and
\* quicktime.rs) never fails on the four type bytes: the tag of every header
\* it read, of a box or of a metadata item, and the tag it names when the
\* size is refused, is the UTF-8 text of the bytes when they are UTF-8 and
\* otherwise one character per byte; A9 74 6F 6F gives "(c)too".
C19_TagDecodingTotal ==
    driver \in {"parse", "info"} =>
        /\ ~(status = "panic" /\ err.kind = "utf8" /\ err.site = "BoxHeader::parse")
        /\ \A i \in Boxes :
               /\ trace[i].hdr_ok => IsTagOf(trace[i].box_type, TagBytesAt(trace[i].start_offset))
               /\ (/\ ~trace[i].hdr_ok
                   /\ HasFields(i)
                   /\ status = "panic"
                   /\ err.site \in {"invalid size", "size=0"}
                   /\ err.offset = trace[i].start_offset)
                      => IsTagOf(err.box_type, TagBytesAt(trace[i].start_offset))
               /\ \A k \in 1..Len(trace[i].entries) :
                      IsTagOf(trace[i].entries[k].box_type,
                              TagBytesAt(trace[i].entries[k].start_offset))

\* A metadata item read as "(c)too" by way of the byte-per-character reading.
C19_Witness ==
    /\ driver = "parse"
    /\ \E i \in Boxes :
           /\ trace[i].box_type = T_ilst
           /\ Len(trace[i].entries) >= 1
           /\ TagBytesAt(trace[i].entries[1].start_offset) = <<169, 116, 111, 111>>
           /\ ~Utf8Valid(TagBytesAt(trace[i].entries[1].start_offset))
           /\ trace[i].entries[1].box_type = T_too
           /\ trace[i].entries[1].variant = "EncoderTag"

\* A box whose type is UTF-8 of fewer than four characters.
C19_WitnessUtf8 ==
    \E i \in Boxes :
        /\ driver \in {"parse", "info"}
        /\ trace[i].hdr_ok
        /\ TagBytesAt(trace[i].start_offset) = T_accent
        /\ trace[i].box_type = <<233, 122, 122>>

\* The boxes read by the loop that box i's iteration called.
ChildrenOf(i) == { j \in Boxes : trace[j].parent = i }

\* The iteration on box i called the loop over [read_end, box_end): the frame
\* it pushed ends at the declared end of the box, and the headers that loop
\* read begin at read_end and lie below that end.
RecursesOverPayload(i) ==
    /\ trace[i].box_end = DeclaredEnd(i)
    /\ \A f \in Range(stack) :
           f.idx = i => f.mode = "range" /\ f.end_offset = DeclaredEnd(i)
    /\ \A j \in ChildrenOf(i) :
           /\ BigLt(Big(trace[j].start_offset), DeclaredEnd(i))
           /\ (\A k \in ChildrenOf(i) : j <= k) => trace[j].start_offset = trace[i].read_end

\* C22, as stated: the dispatch of every container tag, "meta" included,
\* leaves the cursor just after the box header, and the driver recurses over
\* [that position, box_end).
C22_ContainerDispatchReadsNothing ==
    driver \in {"parse", "info"} =>
        \A i \in Boxes :
            trace[i].outcome = "enter" =>
                /\ trace[i].read_end = PayloadStart(i)
                /\ RecursesOverPayload(i)

\* C22, amended: the dispatch of moov, trak, edts, mdia, minf, dinf, stbl,
\* mvex, moof, traf, mfra and udta reads nothing; that of meta reads the four
\* bytes of a full-box header; the driver recurses over [the position the
\* dispatch left, box_end), and enters no box of another type.
C22_ContainerDispatchReadsOnlyMetaPrefix ==
    driver \in {"parse", "info"} =>
        \A i \in Boxes :
            trace[i].outcome = "enter" =>
                /\ trace[i].box_type \in ContainerTags \cup {T_meta}
                /\ trace[i].box_type \in ContainerTags => trace[i].read_end = PayloadStart(i)
                /\ trace[i].box_type = T_meta => trace[i].read_end = PayloadStart(i) + 4
                /\ RecursesOverPayload(i)

\* A meta box entered and left, its first child read four bytes after its
\* header.
C22_Witness ==
    /\ driver = "parse"
    /\ status = "done"
    /\ \E i \in Boxes, j \in Boxes :
           /\ trace[i].box_type = T_meta
           /\ trace[i].outcome = "enter"
           /\ trace[j].parent = i
           /\ trace[j].start_offset = PayloadStart(i) + 4

\* A container of another type entered and left, its first child at its
\* payload.
C22_WitnessPlain ==
    /\ driver = "parse"
    /\ status = "done"
    /\ \E i \in Boxes, j \in Boxes :
           /\ trace[i].box_type \in ContainerTags
           /\ trace[i].outcome = "enter"
           /\ trace[j].parent = i
           /\ trace[j].start_offset = PayloadStart(i)

\* The deepest nesting of containers in the files of the model:
\* moov > trak > mdia > minf > stbl.
MaxNesting == 5

\* C23: the recursion of the driver stops at a fixed maximum depth.  For a
\* maximum below the nesting of a file, the driver never has as many calls
\* of its loop open as the file nests containers: the stack, which holds
\* the call on the whole file and one call per container being decoded,
\* stays within MaxNesting frames, the decode failing before that.
C23_NestingLimited == driver \in {"parse", "info"} => Len(stack) <= MaxNesting

\* C24: in parse.rs a box read by a loop at nesting depth d (the stack then
\* holds d + 1 calls) is reported at indent 4 * (d + 1), and the entries of
\* an stsd or ilst box 4 columns deeper; while the decode runs the indent
\* is 4 per open call, so it never drops below 4, and it is 4 when the
\* decode has returned.
C24_IndentFollowsDepth ==
    driver = "parse" =>
        /\ indent >= 4
        /\ \A i \in Boxes :
               /\ trace[i].indent = 4 * trace[i].depth
               /\ trace[i].entries # <<>> => trace[i].entry_indent = 4 * (trace[i].depth + 1)
        /\ status = "running" => indent = 4 * Len(stack)
        /\ status = "done" => indent = 4

\* A decode that returned after an stsd box with an entry, five containers
\* deep.
C24_Witness ==
    /\ driver = "parse"
    /\ status = "done"
    /\ indent = 4
    /\ \E i \in Boxes :
           /\ trace[i].box_type = T_stsd
           /\ trace[i].depth = 6
           /\ trace[i].indent = 24
           /\ trace[i].entries # <<>>
           /\ trace[i].entry_indent = 28

\* The ilst boxes whose header parse.rs read.
Ilsts == { i \in Boxes : driver = "parse" /\ trace[i].hdr_ok /\ trace[i].box_type = T_ilst }

\* The end the k-th item of box i declares: its start plus its 32-bit size.
ItemEnd(i, k) == trace[i].entries[k].start_offset + IntOf(trace[i].entries[k].box_size)

\* Every item read of an ilst box begins where the one before it ended, the
\* first at the payload of the box; its text is the bytes from the end of
\* its 8-byte header to its declared end, where parsing it left the cursor.
ItemsAreContiguous ==
    \A i \in Ilsts :
        \A k \in 1..Len(trace[i].entries) :
            /\ trace[i].entries[k].start_offset =
                   (IF k = 1 THEN PayloadStart(i) ELSE ItemEnd(i, k - 1))
            /\ trace[i].entries[k].variant = "EncoderTag"
            /\ trace[i].entries[k].end_pos = ItemEnd(i, k)
            /\ Utf8Encode(trace[i].entries[k].vals[1]) =
                   SubSeq(buf, trace[i].entries[k].start_offset + 9, ItemEnd(i, k))

\* The loop over the items of box i ended with no item failing: the
\* iteration went on to the skip of the remainder.
ItemLoopEnded(i) ==
    \/ trace[i].outcome = "leaf"
    \/ /\ trace[i].outcome = "panic"
       /\ i = Len(trace)
       /\ err.site = "skip remaining"

\* C25: the items of an ilst box are read one after another, each text the
\* bytes between its header and its declared end, and when the loop over
\* the items has ended the cursor is at the box_end of the ilst box exactly.
C25_ItemsEndAtBoxEnd ==
    /\ ItemsAreContiguous
    /\ \A i \in Ilsts : ItemLoopEnded(i) => Big(trace[i].read_end) = trace[i].box_end

\* The stsd boxes that declare two entries or more and whose entries
\* parse.rs or info.rs read.
CountedStsds ==
    { i \in Boxes : /\ driver \in {"parse", "info"}
                    /\ trace[i].hdr_ok
                    /\ trace[i].box_type = T_stsd
                    /\ trace[i].variant = "Stsd"
                    /\ BigLe(Big(2), trace[i].vals[1]) }

\* The end the k-th sample entry of box i declares.
SampleEntryEnd(i, k) ==
    trace[i].entries[k].start_offset + IntOf(trace[i].entries[k].box_size)

\* C26: in an stsd box of two entries or more, parsing an mp4a or avc1
\* entry leaves the cursor at the start of the entry plus its declared
\* length, and the header of the next entry is decoded there.
C26_EntriesTile ==
    \A i \in CountedStsds :
        \A k \in 1..Len(trace[i].entries) :
            /\ trace[i].entries[k].variant \in {"Mp4a", "Avc1"}
            /\ IsSmall(trace[i].entries[k].box_size)
            /\ trace[i].entries[k].end_pos = SampleEntryEnd(i, k)
            /\ k > 1 => trace[i].entries[k].start_offset = SampleEntryEnd(i, k - 1)

\* The number of entries read inside the first n boxes of the trace.
RECURSIVE EntriesRead(_)
EntriesRead(n) == IF n = 0 THEN 0 ELSE EntriesRead(n - 1) + Len(trace[n].entries)

\* The headers decoded so far: those of boxes and those of entries.
HeadersDecoded == Cardinality({ i \in Boxes : trace[i].hdr_ok }) + EntriesRead(Len(trace))

\* Every iteration that did not fail, of a driver loop or of a loop over
\* entries, moved the cursor forward by 8 bytes or more; the headers decoded
\* and the containers being decoded each take 8 bytes of the buffer.
C27_Progress ==
    driver \in {"parse", "info"} =>
        /\ pos <= Len(buf)
        /\ \A i \in Boxes :
               /\ trace[i].outcome # "panic" =>
                      /\ trace[i].start_offset + 8 <= trace[i].read_end
                      /\ trace[i].read_end <= trace[i].end_pos
               /\ \A k \in 1..Len(trace[i].entries) :
                      trace[i].entries[k].start_offset + 8 <= trace[i].entries[k].end_pos
               /\ i > 1 => trace[i - 1].start_offset + 8 <= trace[i].start_offset
        /\ 8 * HeadersDecoded <= Len(buf)
        /\ 8 * (Len(stack) - 1) <= Len(buf)

Finished == status \in {"done", "panic"}

\* What is left to do: the bytes after the cursor, then the calls to return
\* from.  It is at most 2 * L + L/8 + 1 and never negative.
Variant == 2 * (Len(buf) - pos) + Len(stack)

\* A step of a driver ends the decode or moves the cursor forward, never
\* back, and lowers the variant.
VariantDecreases ==
    driver \in {"parse", "info"} =>
        \/ status' \in {"done", "panic"}
        \/ /\ status' = "running"
           /\ pos <= pos'
           /\ Variant' < Variant

\* A driver that has not ended can take a step: it is running, and of its
\* three actions the guards are LoopCondition, ~LoopCondition with a call to
\* return to (Len(stack) > 1), and ~LoopCondition on the outermost call
\* (Len(stack) = 1).
NeverStuck ==
    (driver \in {"parse", "info"} /\ ~Finished) =>
        /\ status = "running"
        /\ \/ LoopCondition
           \/ ~LoopCondition /\ Len(stack) > 1
           \/ ~LoopCondition /\ Len(stack) = 1

\* C27: on every buffer parse.rs and info.rs come to an end, by returning
\* or by a panic: a decode that has not ended can take a step, and every
\* step ends it or lowers a variant bounded by the length L of the buffer;
\* every iteration moved the cursor by a header at least, so at most L/8
\* headers are decoded and at most L/8 calls are open.
C27_DecodeTerminates ==
    /\ [](C27_Progress /\ NeverStuck /\ Variant >= 0)
    /\ [][VariantDecreases]_vars

\* A decode that returned after the headers of seven boxes, five of them
\* containers inside one another, and of a sample entry.
C27_Witness ==
    /\ driver = "parse"
    /\ status = "done"
    /\ HeadersDecoded >= 8
    /\ EntriesRead(Len(trace)) >= 1
    /\ \E i \in Boxes : trace[i].depth = 6

\* The position a skip of the whole inner_size of box i leads to, from the
\* end of its header.
PayloadEnd(i) == BigAdd(Big(PayloadStart(i)), trace[i].inner_size).val

\* C28: in parse.rs and info.rs the skip of the payload of an unknown box or
\* of an mdat box moves the cursor by the whole 64-bit inner_size, and the
\* skip of the remainder of a box moves it to box_end, also for lengths of
\* 2^32 and more; otherwise the decode fails.
C28_SkipsAreFullLength ==
    driver \in {"parse", "info"} =>
        \A i \in Boxes :
            /\ trace[i].outcome = "skipped" => Big(trace[i].end_pos) = PayloadEnd(i)
            /\ (trace[i].outcome = "leaf" /\ trace[i].variant = "Mdat")
                   => Big(trace[i].read_end) = PayloadEnd(i)
            /\ (trace[i].outcome = "leaf" /\ BigLe(Big(trace[i].read_end), trace[i].box_end))
                   => Big(trace[i].end_pos) = trace[i].box_end

\* The free boxes whose header a driver read.
Frees == { i \in Boxes : trace[i].hdr_ok /\ trace[i].box_type = T_free }

\* C30: a free box is accepted only with inner_size 0: its parser then reads
\* nothing and yields Free, and a free box of declared size 8 ends 8 bytes
\* after its start; a free box with another inner_size makes the decode
\* panic on the assertion, at the end of its header, no byte of payload
\* being skipped.
C30_FreeOnlyWhenEmpty ==
    \A i \in Frees :
        /\ trace[i].outcome # "panic" =>
               /\ trace[i].inner_size = Big(0)
               /\ trace[i].variant = "Free"
               /\ trace[i].read_end = PayloadStart(i)
        /\ SizeField(i) = Big(8) =>
               /\ trace[i].outcome = "leaf"
               /\ trace[i].end_pos = trace[i].start_offset + 8
        /\ trace[i].inner_size # Big(0) =>
               /\ trace[i].outcome = "panic"
               /\ i = Len(trace)
               /\ status = "panic"
               /\ err = Panic("assert", "Free")
               /\ pos = PayloadStart(i)

\* A free box of declared size 16 whose 8 bytes of payload the buffer
\* holds: the decode panics at the end of the header.
C30_Witness ==
    \E j \in Frees :
        /\ SizeField(j) = Big(16)
        /\ trace[j].start_offset + 16 <= Len(buf)
        /\ trace[j].outcome = "panic"
        /\ err = Panic("assert", "Free")
        /\ pos = trace[j].start_offset + 8

\* An empty free box read, and the box after it.
C30_WitnessEmpty ==
    \E i \in Frees, j \in Boxes :
        /\ SizeField(i) = Big(8)
        /\ trace[i].outcome = "leaf"
        /\ j = i + 1
        /\ trace[j].start_offset = trace[i].start_offset + 8

(***************************************************************************)
(* Properties of the Reader, under SpecReader                              *)
(***************************************************************************)
IntegerReads ==
    { "read_u8", "read_u16", "read_u32", "read_u64",
      "read_fixed_point_16_16", "read_fixed_point_8_8" }

SignedReads == { "read_i16", "read_i32" }

ByteReads == { "read_bytes", "read_exact" }

ExactReads == IntegerReads \cup SignedReads \cup ByteReads \cup { "read_string" }

\* The bytes [p, p + w) the last operation was asked for.
Asked == SubSeq(buf, last.p + 1, last.p + last.w)

InBounds == last.p + last.w <= Len(buf)

\* Byte k (0 the least significant) of an unsigned value in limbs.
ByteAt(v, k) == (v[(k \div 2) + 1] \div (IF k % 2 = 0 THEN 1 ELSE 256)) % 256

Pow256(k) == IF k = 0 THEN 1 ELSE IF k = 1 THEN 256 ELSE IF k = 2 THEN 65536 ELSE 16777216

\* Byte k of the two's complement form of a signed value.
SignedByteAt(n, k) ==
    IF n >= 0 THEN (n \div Pow256(k)) % 256
    ELSE 255 - (((0 - (n + 1)) \div Pow256(k)) % 256)

\* The value the last operation returned is the big-endian reading of the
\* bytes it was asked for: the first byte is the most significant.
BigEndianValue ==
    /\ last.op \in IntegerReads =>
           /\ \A k \in 0..(last.w - 1) : ByteAt(last.val, k) = buf[last.p + last.w - k]
           /\ \A k \in last.w..7 : ByteAt(last.val, k) = 0
    /\ last.op \in SignedReads =>
           \A k \in 0..(last.w - 1) : SignedByteAt(last.val[1], k) = buf[last.p + last.w - k]
    /\ last.op \in ByteReads => last.val = Asked
    /\ last.op = "read_string" => Utf8Encode(last.val) = Asked

\* C9: on a buffer of length L the position stays within 0..L and no
\* operation of the Reader decreases it; position() returns the position and
\* changes nothing.
C9_PositionBoundedMonotone ==
    [][ /\ 0 <= pos'
        /\ pos' <= Len(buf')
        /\ pos <= pos'
        /\ buf' = buf
        /\ last'.op = "position" =>
               /\ pos' = pos
               /\ status' = status
               /\ err' = err
               /\ last'.val = <<pos>> ]_vars

\* A skip from inside the buffer to its very end, and before that a skip
\* beyond the end that was refused.
C9_Witness ==
    /\ last.op = "skip_bytes"
    /\ last.ok
    /\ last.w > 0
    /\ last.p > 0
    /\ pos = Len(buf)
    /\ pos = last.p + last.w

\* C10 as stated: every fixed-width or exact-length read of w bytes at p
\* succeeds if and only if p + w <= L, then leaves the position at p + w,
\* and panics as truncated otherwise.
C10_ReadSucceedsIffInBounds ==
    last.op \in ExactReads =>
        /\ last.ok <=> InBounds
        /\ last.ok => pos = last.p + last.w /\ BigEndianValue
        /\ ~InBounds => status = "panic" /\ err.kind = "eof" /\ last.val = <<>>

\* C10, amended: an integer, fixed-point or byte read of w bytes at p succeeds
\* if and only if p + w <= L; read_string succeeds if and only if p + w <= L
\* and the bytes are valid UTF-8.  On success the value is the big-endian
\* reading of bytes [p, p + w) and the position is p + w; with p + w > L the
\* read panics as truncated and returns no value.
C10_ReadSucceedsIffInBoundsAndText ==
    last.op \in ExactReads =>
        /\ last.ok <=> (InBounds /\ (last.op = "read_string" => Utf8Valid(Asked)))
        /\ last.ok => pos = last.p + last.w /\ BigEndianValue
        /\ ~InBounds => status = "panic" /\ err.kind = "eof" /\ last.val = <<>>
        /\ (InBounds /\ ~last.ok) =>
               status = "panic" /\ err.kind = "utf8" /\ pos = last.p + last.w

\* A second 32-bit read, of four different bytes, that ends at the end of
\* the buffer.
C10_Witness ==
    /\ last.op = "read_u32"
    /\ last.ok
    /\ last.p = 4
    /\ pos = Len(buf)
    /\ last.val = <<7 * 256 + 8, 5 * 256 + 6, 0, 0>>


\* The N the last skip_bytes was called with: last.w is its low limb, and
\* the only N of two limbs is 2^32 - 1.
SkipN == IF last.w = Base - 1 THEN U32Max ELSE Big(last.w)

SkipInBounds == last.w < Base - 1 /\ last.p + last.w <= Len(buf)

\* C11: skip_bytes(N) at p on a buffer of length L returns Ok with the
\* position at p + N when p + N <= L, and otherwise returns an error that
\* holds N, p and L and leaves the position at p; it never panics.
C11_SkipChecksBounds ==
    last.op = "skip_bytes" =>
        /\ status = "running"
        /\ SkipInBounds =>
               /\ last.ok
               /\ pos = last.p + last.w
        /\ ~SkipInBounds =>
               /\ ~last.ok
               /\ last.kind = "seek"
               /\ last.val = <<SkipN[1], SkipN[2], last.p, Len(buf)>>
               /\ pos = last.p

\* A skip from inside the buffer that would land one byte beyond its end.
C11_Witness ==
    /\ last.op = "skip_bytes"
    /\ ~last.ok
    /\ last.p > 0
    /\ last.w \in 1..MaxArg
    /\ last.p + last.w = Len(buf) + 1
    /\ pos = last.p


(***************************************************************************)
(* Properties of the end of an iteration, under SpecPostStep               *)
(***************************************************************************)
\* C12: when the cursor is beyond the end of the box after the box was read,
\* the decode panics there: no skip is made and the loop does not go on.
C12_OverrunFails ==
    (last.op = "post_step" /\ BigLt(last.box_end, last.p)) =>
        /\ status = "panic"
        /\ ~last.ok
        /\ last.end_pos = last.p

\* C21: a container's loop exits at position >= end, and the iteration that
\* called it goes on to the next sibling only when the loop exited at
\* position = end exactly, the cursor then staying at end.
C21_LoopExitsAtEnd ==
    (last.op = "post_step" /\ BigLe(last.box_end, last.p) /\ status = "next") =>
        /\ last.p = last.box_end
        /\ last.end_pos = last.box_end

(***************************************************************************)
(* Properties of the language field, under SpecLanguage                     *)
(***************************************************************************)
\* The 16-bit big-endian value of the two language bytes.
LanguageValue == last.language[1] * 256 + last.language[2]

\* C20: for every two language bytes of big-endian value v the decoding
\* succeeds and gives the three characters 0x60 + bits 14..10, 0x60 + bits
\* 9..5 and 0x60 + bits 4..0 of v, each in 0x60..0x7F; bit 15 changes
\* nothing; the fields 21, 14, 4 give "und".
C20_LanguageCode ==
    last.op = "language_code" =>
        /\ last.ok
        /\ status = "next"
        /\ last.val = << 96 + ((LanguageValue \div 1024) % 32),
                         96 + ((LanguageValue \div 32) % 32),
                         96 + (LanguageValue % 32) >>
        /\ \A k \in 1..3 : last.val[k] \in 96..127
        /\ last.val = language_code(<<(last.language[1] + 128) % 256, last.language[2]>>).val
        /\ LanguageValue % 32768 = (21 * 1024) + (14 * 32) + 4 => last.val = <<117, 110, 100>>

\* "und" decoded from the fields 21, 14, 4 with bit 15 set.
C20_Witness ==
    /\ last.op = "language_code"
    /\ last.language = <<213, 196>>
    /\ last.ok
    /\ last.val = <<117, 110, 100>>

\* The media header of a file, decoded by either reader: "und".
C20_WitnessMdhd ==
    \E i \in Boxes :
        /\ trace[i].box_type = T_mdhd
        /\ trace[i].outcome = "leaf"
        /\ trace[i].vals[5] = <<117, 110, 100>>

(***************************************************************************)
(* Properties of the two drivers on one file, under SpecPair                *)
(***************************************************************************)
\* What a driver loop read of a box: where, its type and its declared size.
HeaderOf(t) == <<t.start_offset, t.hdr_ok, t.box_type, t.box_size>>

\* The sample entries read in a box: where, their type and declared size.
EntriesOf(t) ==
    IF t.box_type = T_stsd
    THEN [k \in 1..Len(t.entries) |->
              <<t.entries[k].start_offset, t.entries[k].box_type, t.entries[k].box_size>>]
    ELSE <<>>

BothSucceeded == driver = "info" /\ status = "done" /\ last.op = "parse_mp4"

====
